---- MODULE Spec2Model ----
(***************************************************************************)
(* Project-awareness session consolidation, restoration and the tool hooks *)
(* of ChittyOS/cicd-templates.                                             *)
(*                                                                         *)
(* Text (file names, file contents, tool results) is modelled as sequences *)
(* of tokens: a token is a run of characters that the code never splits.   *)
(* The characters the code gives a meaning to (line feed, double quote,    *)
(* backslash, braces, comma, colon) are tokens of their own.               *)
(***************************************************************************)
EXTENDS Integers, Sequences, FiniteSets, TLC

(***************************************************************************)
(* Bounds of the model.                                                    *)
(***************************************************************************)
\* the environment keeps at most this many raw session files per project
MaxSessions == 2
\* consolidation / restoration runs of one behaviour
MaxRuns == 3

(***************************************************************************)
(* Characters with a meaning in JSON text and in file contents.            *)
(***************************************************************************)
NL == "LF"
QUOTE == "DQUOTE"
BSL == "BACKSLASH"
LBRACE == "{"
RBRACE == "}"
COMMA == ","
COLON == ":"

DigitTok == <<"0", "1", "2", "3", "4", "5", "6", "7", "8", "9">>

\* Number -> decimal text, as String(n) / template interpolation does.
RECURSIVE Digits(_)
Digits(n) ==
    IF n < 10 THEN <<DigitTok[n + 1]>>
    ELSE Digits(n \div 10) \o <<DigitTok[(n % 10) + 1]>>

IsDigit(t) == \E i \in 1..10 : DigitTok[i] = t

DigitValue(t) == (CHOOSE i \in 1..10 : DigitTok[i] = t) - 1

\* Array.prototype.join: the texts of xs with sep between them.
RECURSIVE Join(_, _)
Join(xs, sep) ==
    IF Len(xs) = 0 THEN <<>>
    ELSE IF Len(xs) = 1 THEN xs[1]
    ELSE xs[1] \o sep \o Join(Tail(xs), sep)

\* The texts of xs[lo..hi] one after the other.
RECURSIVE ConcatRange(_, _, _)
ConcatRange(xs, lo, hi) ==
    IF lo > hi THEN <<>>
    ELSE IF lo = hi THEN xs[lo]
    ELSE LET mid == (lo + hi) \div 2
         IN  ConcatRange(xs, lo, mid) \o ConcatRange(xs, mid + 1, hi)

Concat(xs) == ConcatRange(xs, 1, Len(xs))

\* String.prototype.split(sep) for a one-character separator.
Split(s, sep) ==
    LET P == {i \in 1..Len(s) : s[i] = sep}
        k == Cardinality(P)
        cut(j) == IF j = 0 THEN 0
                  ELSE IF j = k + 1 THEN Len(s) + 1
                  ELSE CHOOSE i \in P : Cardinality({m \in P : m <= i}) = j
    IN  [j \in 1..(k + 1) |-> SubSeq(s, cut(j - 1) + 1, cut(j) - 1)]

\* String.prototype.trim: white space is removed at both ends.
IsSpace(t) == t \in {NL, " "}

Trim(s) ==
    LET keep == {i \in 1..Len(s) : ~IsSpace(s[i])}
    IN  IF keep = {} THEN <<>>
        ELSE SubSeq(s, CHOOSE i \in keep : \A m \in keep : i <= m,
                       CHOOSE i \in keep : \A m \in keep : m <= i)

(***************************************************************************)
(* JSON.stringify and JSON.parse for the flat objects of the session       *)
(* record.  An object is a sequence of fields [k, t, v, n]: key (a text),  *)
(* type ("str" or "num") and value (the text v or the number n).           *)
(***************************************************************************)
StrField(k, v) == [k |-> k, t |-> "str", v |-> v, n |-> 0]
NumField(k, n) == [k |-> k, t |-> "num", v |-> <<>>, n |-> n]

\* no escape for the line feed
EscapeCharRawLineFeed(c) ==
    IF c = QUOTE THEN <<BSL, QUOTE>>
    ELSE IF c = BSL THEN <<BSL, BSL>>
    ELSE <<c>>

\* the escapes JSON.stringify applies to the characters of a string
EscapeChar(c) ==
    IF c = NL THEN <<BSL, "n">>
    ELSE IF c = QUOTE THEN <<BSL, QUOTE>>
    ELSE IF c = BSL THEN <<BSL, BSL>>
    ELSE <<c>>

Escape(s) == Concat([i \in 1..Len(s) |-> EscapeChar(s[i])])

StringifyString(s) == <<QUOTE>> \o Escape(s) \o <<QUOTE>>

StringifyField(f) ==
    StringifyString(f.k) \o <<COLON>> \o
    (IF f.t = "str" THEN StringifyString(f.v) ELSE Digits(f.n))

RECURSIVE StringifyFields(_)
StringifyFields(fs) ==
    IF Len(fs) = 0 THEN <<>>
    ELSE IF Len(fs) = 1 THEN StringifyField(fs[1])
    ELSE StringifyField(fs[1]) \o <<COMMA>> \o StringifyFields(Tail(fs))

JSONStringify(obj) == <<LBRACE>> \o StringifyFields(obj) \o <<RBRACE>>

\* Parsing yields [ok, obj]; ok = FALSE stands for the SyntaxError that
\* JSON.parse throws.
ParseError == [ok |-> FALSE, obj |-> <<>>]

\* The number of backslashes that end at s[j].
RECURSIVE BackslashRun(_, _)
BackslashRun(s, j) ==
    IF j >= 1 /\ s[j] = BSL THEN 1 + BackslashRun(s, j - 1) ELSE 0

\* s[j] follows a backslash that starts an escape
IsEscaped(s, j) == BackslashRun(s, j - 1) % 2 = 1

UnescapeChar(c) ==
    IF c = "n" THEN <<NL>> ELSE <<c>>

\* A string literal whose opening quote is s[i]: [ok, v, next].  It ends at
\* the first quote that no backslash escapes; a raw line feed or an unknown
\* escape in it is a syntax error.
ParseString(s, i) ==
    LET bad == [ok |-> FALSE, v |-> <<>>, next |-> i]
        closing == {j \in (i + 1)..Len(s) : s[j] = QUOTE /\ ~IsEscaped(s, j)}
        j == CHOOSE c \in closing : \A m \in closing : c <= m
        body == (i + 1)..(j - 1)
        legal(k) ==
            /\ s[k] # NL
            /\ IsEscaped(s, k) => s[k] \in {"n", QUOTE, BSL}
        piece(k) ==
            IF IsEscaped(s, k) THEN UnescapeChar(s[k])
            ELSE IF s[k] = BSL THEN <<>>
            ELSE <<s[k]>>
    IN  IF i > Len(s) \/ s[i] # QUOTE \/ closing = {} THEN bad
        ELSE IF \E k \in body : ~legal(k) THEN bad
        ELSE [ok |-> TRUE,
              v |-> Concat([k \in 1..(j - 1 - i) |-> piece(i + k)]),
              next |-> j + 1]

\* A number starting at s[i]: [ok, n, next].
RECURSIVE ParseNumberFrom(_, _, _)
ParseNumberFrom(s, i, acc) ==
    IF i <= Len(s) /\ IsDigit(s[i])
    THEN ParseNumberFrom(s, i + 1, acc * 10 + DigitValue(s[i]))
    ELSE [ok |-> TRUE, n |-> acc, next |-> i]

ParseNumber(s, i) ==
    IF i <= Len(s) /\ IsDigit(s[i]) THEN ParseNumberFrom(s, i, 0)
    ELSE [ok |-> FALSE, n |-> 0, next |-> i]

\* The members of an object, s[i] being the first token of a member.
RECURSIVE ParseMembers(_, _, _)
ParseMembers(s, i, acc) ==
    LET key == ParseString(s, i) IN
    IF ~key.ok \/ key.next > Len(s) \/ s[key.next] # COLON THEN ParseError
    ELSE
        LET j == key.next + 1
            str == ParseString(s, j)
            num == ParseNumber(s, j)
            isStr == j <= Len(s) /\ s[j] = QUOTE
            ok == IF isStr THEN str.ok ELSE num.ok
            next == IF isStr THEN str.next ELSE num.next
            field == IF isStr THEN StrField(key.v, str.v)
                     ELSE NumField(key.v, num.n)
        IN  IF ~ok \/ next > Len(s) THEN ParseError
            ELSE IF s[next] = RBRACE THEN
                IF next = Len(s) THEN [ok |-> TRUE, obj |-> Append(acc, field)]
                ELSE ParseError
            ELSE IF s[next] = COMMA THEN ParseMembers(s, next + 1, Append(acc, field))
            ELSE ParseError

JSONParse(s) ==
    IF Len(s) < 2 \/ s[1] # LBRACE THEN ParseError
    ELSE IF Len(s) = 2 THEN
        IF s[2] = RBRACE THEN [ok |-> TRUE, obj |-> <<>>] ELSE ParseError
    ELSE ParseMembers(s, 2, <<>>)

\* obj.key of a parsed object: the last member with that key wins.
HasKey(obj, k) == \E i \in 1..Len(obj) : obj[i].k = k

GetField(obj, k) ==
    obj[CHOOSE i \in 1..Len(obj) :
            obj[i].k = k /\ \A j \in (i + 1)..Len(obj) : obj[j].k # k]

(***************************************************************************)
(* The file system under ~/.claude/projects.                               *)
(***************************************************************************)
\* String.prototype.toLowerCase on the tokens that hold upper-case letters.
LowerTok(t) ==
    CASE t = "Alpha" -> "alpha"
      [] t = "LLC" -> "llc"
      [] t = "Court" -> "court"
      [] t = "SMART-START" -> "smart-start"
      [] OTHER -> t

ToLowerCase(s) == [i \in 1..Len(s) |-> LowerTok(s[i])]

\* project names given on the command line
Projects == {<<"Alpha">>, <<"my", QUOTE, "proj">>}

SessionFile(i) == <<"session-">> \o Digits(i) \o <<".jsonl">>

\* entries of a project directory that are not raw sessions
OtherFiles == {<<"notes", ".txt">>, <<"old-", "SMART-START", "-copy", ".jsonl">>}

\* `${projectName}-SMART-START.jsonl`
SmartSessionName(projectName) == projectName \o <<"-", "SMART-START", ".jsonl">>

NoFile == [exists |-> FALSE, content |-> <<>>]
FileOf(content) == [exists |-> TRUE, content |-> content]

VARIABLES
    dirExists,          \* project -> whether ~/.claude/projects/<project> exists
    entries,            \* project -> names in the directory, the record apart
    smartFile,          \* project -> the file <project>-SMART-START.jsonl
    integrationStatus,  \* ~/.claude/chittychat-integration-status.json
    restoreScripts,     \* names of the /tmp/restore-<name>.sh files
    clock,              \* the time new Date() returns
    runs,               \* script runs so far
    last                \* what the last step was and what it returned

consVars == <<dirExists, entries, smartFile, integrationStatus, restoreScripts,
              clock, runs, last>>

\* fs.readdirSync(projectPath)
ReadDir(p) ==
    entries[p] \cup (IF smartFile[p].exists THEN {SmartSessionName(p)} ELSE {})

EndsWith(name, suffix) == Len(name) > 0 /\ name[Len(name)] = suffix
Includes(name, part) == \E i \in 1..Len(name) : name[i] = part

\* file => file.endsWith('.jsonl') && !file.includes('SMART-START')
IsSessionFileNoSmartCheck(file) == EndsWith(file, ".jsonl")

IsSessionFile(file) == EndsWith(file, ".jsonl") /\ ~Includes(file, "SMART-START")

SessionFilesOf(p) == {f \in ReadDir(p) : IsSessionFile(f)}

\* new Date().toISOString()
ISOString(t) == <<"2025-01-01T00", COLON, "00", COLON>> \o Digits(t) \o <<"Z">>

(***************************************************************************)
(* generateSmartContent(projectName, sessionFiles): only the length of     *)
(* sessionFiles is used, n below.                                          *)
(***************************************************************************)
SmartSessionHeader(projectName, n, t) ==
    << StrField(<<"type">>, <<"smart_start_session">>),
       StrField(<<"project">>, projectName),
       StrField(<<"generated_at">>, ISOString(t)),
       NumField(<<"consolidated_sessions">>, n),
       StrField(<<"version">>, <<"1.0.0">>),
       StrField(<<"generation_method">>, <<"quick_consolidation">>) >>

ContextContent(projectName, n) ==
    <<"## Smart Session Context for ">> \o projectName \o <<NL, NL>>
    \o <<"**Project Intelligence", COLON, "** Synthesized from ">> \o Digits(n)
    \o <<" previous sessions", NL, NL>>
    \o <<"### Project Overview", NL, "This is your consolidated smart session for **">>
    \o projectName \o <<"**. Based on ">> \o Digits(n)
    \o <<" previous work sessions", COMMA, " this project appears to be an active area of focus.", NL, NL>>
    \o <<"### Ready to Continue", NL, "Your previous work on **">> \o projectName
    \o <<"** is available for context. The system has consolidated your session history and is ready to assist with continued work on this project.", NL, NL>>
    \o <<"### Session History Available", NL, "- **Total Sessions**", COLON, " ">>
    \o Digits(n) \o <<NL, "- **Latest Activity**", COLON, " Recent work detected", NL>>
    \o <<"- **Context Preserved**", COLON, " Previous decisions and patterns maintained", NL, NL>>
    \o <<"**Ready to work on ">> \o projectName \o <<"!**">>

SuggestionsContent(projectName, n) ==
    <<"## Quick Start Suggestions for ">> \o projectName \o <<NL, NL>>
    \o <<"Based on this being an active project with ">> \o Digits(n)
    \o <<" sessions", COLON, NL, NL>>
    \o <<"- Review recent file changes", NL, "- Continue previous workflows  ", NL>>
    \o <<"- Access project-specific resources", NL, "- Build on established patterns", NL, NL>>
    \o <<"This smart session provides instant context restoration for efficient project continuation.">>

ContextMessage(projectName, n, t) ==
    << StrField(<<"role">>, <<"assistant">>),
       StrField(<<"content">>, ContextContent(projectName, n)),
       StrField(<<"timestamp">>, ISOString(t)) >>

SuggestionsMessage(projectName, n, t) ==
    << StrField(<<"role">>, <<"system">>),
       StrField(<<"content">>, SuggestionsContent(projectName, n)),
       StrField(<<"timestamp">>, ISOString(t)) >>

generateSmartContent(projectName, n, t) ==
    Join(<< JSONStringify(SmartSessionHeader(projectName, n, t)),
            JSONStringify(ContextMessage(projectName, n, t)),
            JSONStringify(SuggestionsMessage(projectName, n, t)) >>, <<NL>>)

(***************************************************************************)
(* generateQuickSmartSession(projectName)                                  *)
(***************************************************************************)
NoLast ==
    [op |-> "init", project |-> <<>>, outcome |-> "", n |-> 0,
     hadRecord |-> FALSE, record |-> <<>>, result |-> ""]

\* if (sessionFiles.length === 0) return;
NoSessionsNever(n) == FALSE

NoSessions(n) == n = 0

\* fs.writeFileSync(path, content) replaces the file; appendFileSync adds to it
AppendFile(old, content) == FileOf(old.content \o content)

WriteFile(old, content) == FileOf(content)

generateQuickSmartSession(projectName) ==
    LET n == Cardinality(SessionFilesOf(projectName))
        content == generateSmartContent(projectName, n, clock)
        ran(outcome, rec) ==
            [op |-> "generate", project |-> projectName, outcome |-> outcome,
             n |-> n, hadRecord |-> smartFile[projectName].exists,
             record |-> rec, result |-> ""]
    IN  /\ runs < MaxRuns
        /\ runs' = runs + 1
        /\ clock' = clock + 1
        /\ UNCHANGED <<dirExists, entries, integrationStatus, restoreScripts>>
        /\ IF ~dirExists[projectName]
           THEN /\ last' = ran("notfound", <<>>)
                /\ UNCHANGED smartFile
           ELSE IF NoSessions(n)
           THEN /\ last' = ran("nosessions", <<>>)
                /\ UNCHANGED smartFile
           ELSE /\ smartFile' = [smartFile EXCEPT
                        ![projectName] = WriteFile(smartFile[projectName], content)]
                /\ last' = ran("written", content)

(***************************************************************************)
(* ChittyChatSmartStart                                                    *)
(***************************************************************************)
Undefined == [defined |-> FALSE, v |-> <<>>]
Defined(v) == [defined |-> TRUE, v |-> v]

Null == [found |-> FALSE, data |-> <<>>, context |-> Undefined, suggestions |-> Undefined]

\* the message text read from a key the record does not have
ContentOfTextKey(parsed, present) ==
    IF present /\ HasKey(parsed.obj, <<"text">>)
           /\ GetField(parsed.obj, <<"text">>).t = "str"
    THEN Defined(GetField(parsed.obj, <<"text">>).v)
    ELSE Undefined

\* message?.content
ContentOf(parsed, present) ==
    IF present /\ HasKey(parsed.obj, <<"content">>)
           /\ GetField(parsed.obj, <<"content">>).t = "str"
    THEN Defined(GetField(parsed.obj, <<"content">>).v)
    ELSE Undefined

\* what loadSmartSession returns for a file that exists
ParseSmartSession(content) ==
    LET lines == Split(Trim(content), NL)
        sessionData == JSONParse(lines[1])
        has2 == Len(lines) >= 2 /\ Len(lines[2]) > 0
        has3 == Len(lines) >= 3 /\ Len(lines[3]) > 0
        contextMessage == IF has2 THEN JSONParse(lines[2]) ELSE ParseError
        suggestions == IF has3 THEN JSONParse(lines[3]) ELSE ParseError
    IN  IF ~sessionData.ok \/ (has2 /\ ~contextMessage.ok) \/ (has3 /\ ~suggestions.ok)
        THEN Null   \* catch (error) { return null; }
        ELSE [found |-> TRUE, data |-> sessionData.obj,
              context |-> ContentOf(contextMessage, has2),
              suggestions |-> ContentOf(suggestions, has3)]

\* a missing file yields an empty session instead of null
loadSmartSessionEmptyDefault(projectName) ==
    IF ~smartFile[projectName].exists
    THEN [found |-> TRUE, data |-> <<>>, context |-> Undefined, suggestions |-> Undefined]
    ELSE ParseSmartSession(smartFile[projectName].content)

loadSmartSession(projectName) ==
    IF ~smartFile[projectName].exists THEN Null
    ELSE ParseSmartSession(smartFile[projectName].content)

\* environmentRestorer.restoreProjectEnvironment(projectName, smartSession):
\* it resolves with success, resolves with an error field, or rejects
RestoreOutcomes == {"success", "issues", "throws"}

startSmartSession(projectName, restored) ==
    LET smartSession == loadSmartSession(projectName)
        ran(result) ==
            [op |-> "start", project |-> projectName, outcome |-> restored,
             n |-> 0, hadRecord |-> smartFile[projectName].exists,
             record |-> <<>>, result |-> result]
    IN  /\ runs < MaxRuns
        /\ runs' = runs + 1
        /\ clock' = clock + 1
        /\ UNCHANGED <<dirExists, entries, smartFile>>
        /\ IF ~smartSession.found
           THEN /\ last' = ran("false")
                /\ UNCHANGED <<integrationStatus, restoreScripts>>
           ELSE IF restored = "throws"
           THEN /\ last' = ran("false")     \* catch (error) { return false; }
                /\ UNCHANGED <<integrationStatus, restoreScripts>>
           ELSE /\ integrationStatus' = FileOf(projectName)
                /\ restoreScripts' = restoreScripts \cup {ToLowerCase(projectName)}
                /\ last' = ran("true")

(***************************************************************************)
(* The environment: Claude Code and the user add and remove files.         *)
(***************************************************************************)
EnvStep(p) == [NoLast EXCEPT !.op = "env", !.project = p]

\* one project directory is followed per behaviour
CreateProjectDir(p) ==
    /\ \A q \in Projects : ~dirExists[q]
    /\ dirExists' = [dirExists EXCEPT ![p] = TRUE]
    /\ last' = EnvStep(p)
    /\ UNCHANGED <<entries, smartFile, integrationStatus, restoreScripts, clock, runs>>

NumSessions(p) == Cardinality({f \in entries[p] : f \notin OtherFiles})

AddSessionFile(p) ==
    /\ dirExists[p]
    /\ NumSessions(p) < MaxSessions
    /\ entries' = [entries EXCEPT ![p] = @ \cup {SessionFile(NumSessions(p) + 1)}]
    /\ last' = EnvStep(p)
    /\ UNCHANGED <<dirExists, smartFile, integrationStatus, restoreScripts, clock, runs>>

RemoveSessionFile(p) ==
    /\ NumSessions(p) > 0
    /\ entries' = [entries EXCEPT ![p] = @ \ {SessionFile(NumSessions(p))}]
    /\ last' = EnvStep(p)
    /\ UNCHANGED <<dirExists, smartFile, integrationStatus, restoreScripts, clock, runs>>

AddOtherFile(p, f) ==
    /\ dirExists[p]
    /\ f \notin entries[p]
    /\ entries' = [entries EXCEPT ![p] = @ \cup {f}]
    /\ last' = EnvStep(p)
    /\ UNCHANGED <<dirExists, smartFile, integrationStatus, restoreScripts, clock, runs>>

ConsInit ==
    /\ dirExists = [p \in Projects |-> FALSE]
    /\ entries = [p \in Projects |-> {}]
    /\ smartFile = [p \in Projects |-> NoFile]
    /\ integrationStatus = NoFile
    /\ restoreScripts = {}
    /\ clock = 1
    /\ runs = 0
    /\ last = NoLast

Generate == \E p \in Projects : generateQuickSmartSession(p)
Start == \E p \in Projects : \E r \in RestoreOutcomes : startSmartSession(p, r)
MakeDir == \E p \in Projects : CreateProjectDir(p)
AddSession == \E p \in Projects : AddSessionFile(p)
RemoveSession == \E p \in Projects : RemoveSessionFile(p)
AddOther == \E p \in Projects : \E f \in OtherFiles : AddOtherFile(p, f)

(***************************************************************************)
(* The post-tool hook (project-awareness-posttool.sh).                     *)
(*                                                                         *)
(* A tool result is a text of words separated by single blanks; a word is  *)
(* one token, and so are the apostrophe, the backtick and the line feed.    *)
(***************************************************************************)
APOS == "APOSTROPHE"
BACKTICK == "BACKTICK"
UNSET == "(unset)"

\* if (toolResult.length > 100)
MinResultLength == 100

\* projectMatches.filter(m => m.confidence > 0.3), as the fraction 3 / 10
ThresholdNum == 3
ThresholdDen == 10

\* const projectKeywords = {...}; Object.entries keeps the declared order
projectKeywords ==
    << [project |-> <<"Arias-v-Bianchi">>,
        keywords |-> <<"arias", "bianchi", "legal", "court", "evidence", "motion">>],
       [project |-> <<"ChittyOS-Core">>,
        keywords |-> <<"chittyos", "mcp", "server", "canon">>],
       [project |-> <<"ChittyFinance">>,
        keywords |-> <<"finance", "invoice", "payment", "accounting", "money">>],
       [project |-> <<"ChiCo-Properties">>,
        keywords |-> <<"property", "rental", "tenant", "lease", "chicago">>],
       [project |-> <<"IT-CAN-BE-LLC">>,
        keywords |-> <<"wyoming", "llc", "corporate", "entity">>] >>

NumProjects == Len(projectKeywords)

\* words of tool results that are no keyword
Padding == "lorem-ipsum-dolor-sit-amet-consectetur-adipiscing-elit-sed-do-eiusmod-tempor-incididunt-ut-labore-et-dolore-magna-aliqua"

\* the number of characters (UTF-16 units) of a word
WordLen(w) ==
    CASE w \in {APOS, NL, BACKTICK} -> 1
      [] w \in {"mcp", "llc", "LLC"} -> 3
      [] w \in {"arias", "legal", "court", "Court", "canon", "money", "lease"} -> 5
      [] w \in {"motion", "server", "rental", "tenant", "entity", "please"} -> 6
      [] w \in {"bianchi", "finance", "invoice", "payment", "chicago", "wyoming"} -> 7
      [] w \in {"evidence", "chittyos", "property"} -> 8
      [] w \in {"corporate"} -> 9
      [] w \in {"accounting"} -> 10
      [] w = Padding -> 120
      [] OTHER -> 4

RECURSIVE SumLen(_, _)
SumLen(text, i) ==
    IF i > Len(text) THEN 0 ELSE WordLen(text[i]) + SumLen(text, i + 1)

\* toolResult.length: the words and the blanks between them
StrLen(text) == IF Len(text) = 0 THEN 0 ELSE SumLen(text, 1) + Len(text) - 1

\* word.includes(keyword): the keywords that are part of a lower-case word
KeywordsIn(w) ==
    CASE w = "please" -> {"lease"}
      [] OTHER -> {w}

\* lowerResult.includes(keyword); no keyword holds a blank
ResultIncludes(lowerResult, keyword) ==
    \E i \in 1..Len(lowerResult) : keyword \in KeywordsIn(lowerResult[i])

\* keywords.filter(keyword => lowerResult.includes(keyword)).length
MatchCount(lowerResult, keywords) ==
    Cardinality({k \in 1..Len(keywords) : ResultIncludes(lowerResult, keywords[k])})

\* confidence: matchCount / keywords.length, kept as a fraction
ConfidenceDenominatorOffByOne(keywords) == Len(keywords) + 1

ConfidenceDenominator(keywords) == Len(keywords)

MatchOf(lowerResult, entry) ==
    [project |-> entry.project,
     matches |-> MatchCount(lowerResult, entry.keywords),
     num |-> MatchCount(lowerResult, entry.keywords),
     den |-> ConfidenceDenominator(entry.keywords)]

\* seq.filter(keep), in order
RECURSIVE FilterFrom(_, _, _)
FilterFrom(seq, keep(_), i) ==
    IF i > Len(seq) THEN <<>>
    ELSE (IF keep(seq[i]) THEN <<seq[i]>> ELSE <<>>) \o FilterFrom(seq, keep, i + 1)

Filter(seq, keep(_)) == FilterFrom(seq, keep, 1)

\* the loop over Object.entries(projectKeywords): projects that match at all
ProjectMatches(toolResult) ==
    LET lowerResult == ToLowerCase(toolResult)
        all == [i \in 1..NumProjects |-> MatchOf(lowerResult, projectKeywords[i])]
        matched(m) == m.matches > 0
    IN  Filter(all, matched)

\* m => m.confidence > 0.3
IsStrong(m) == m.num * ThresholdDen > ThresholdNum * m.den

StrongMatches(toolResult) == Filter(ProjectMatches(toolResult), IsStrong)

(***************************************************************************)
(* Files of the hooks under ~/.claude.                                     *)
(***************************************************************************)
VARIABLES
    pointerFile,     \* ~/.claude/current-project
    skipFile,        \* whether ~/.claude/skip-project-prompts exists
    logsDir,         \* whether the directory ~/.claude/logs exists
    statsFile,       \* ~/.claude/project-stats.json
    activityLog,     \* logs/project-activity.jsonl
    suggestionsLog,  \* logs/project-suggestions.jsonl
    awarenessLog,    \* logs/project-awareness.log
    simpleLog,       \* logs/project-activity-simple.log
    invocations,     \* hook invocations that have ended
    lastHook,        \* the last hook invocation that ended: inputs and outcome
    hookProc         \* the overlapping hook processes, each with its position

hookVars == <<pointerFile, skipFile, logsDir, statsFile, activityLog,
              suggestionsLog, awarenessLog, simpleLog, invocations, lastHook,
              hookProc>>

NONE == <<"none">>

\* hook invocations of one behaviour
MaxInvocations == 2

\* TOOL_RESULT=$(cat): command substitution drops the trailing line feeds
RECURSIVE StripTrailingNewlines(_)
StripTrailingNewlines(text) ==
    IF Len(text) > 0 /\ text[Len(text)] = NL
    THEN StripTrailingNewlines(SubSeq(text, 1, Len(text) - 1))
    ELSE text

\* '$TOOL_RESULT' and `$TOOL_RESULT` are pasted into the source of the node
\* script: these characters end the literal or break the line, and node
\* stops with a SyntaxError before postToolAnalysis is called
ScriptBreaking == {APOS, NL, BACKTICK}

Embeds(toolResult) == \A i \in 1..Len(toolResult) : toolResult[i] \notin ScriptBreaking

\* case "$TOOL_NAME" in "Task"|"TodoWrite") exit 0
SkippedTools == {"Task", "TodoWrite"}

\* postToolAnalysis: existsSync(current-project) ? readFileSync(...).trim() : 'none'
CurrentProjectPostTool ==
    IF pointerFile.exists THEN Trim(pointerFile.content) ELSE NONE

\* the statistics document: JSON.parse(readFileSync(statsFile)), {} when the
\* file is missing or is no JSON
NoStatsFile == [state |-> "absent", stats |-> <<>>]
StatsDocument(stats) == [state |-> "json", stats |-> stats]
TruncatedStatsFile == [state |-> "empty", stats |-> <<>>]

ReadStats(file) == IF file.state = "json" THEN file.stats ELSE <<>>

Range(seq) == {seq[i] : i \in 1..Len(seq)}

\* [...new Set(array)]: the first occurrence of each value, in order
Dedup(seq) ==
    LET keep == {i \in 1..Len(seq) : \A j \in 1..(i - 1) : seq[j] # seq[i]}
        nth(k) == CHOOSE i \in keep : Cardinality({j \in keep : j <= i}) = k
    IN  [k \in 1..Cardinality(keep) |-> seq[nth(k)]]

\* JSON.stringify of an array writes undefined as null
StringifyArray(seq) ==
    [i \in 1..Len(seq) |-> IF seq[i] = "undefined" THEN "null" ELSE seq[i]]

\* process.env.CLAUDE_AGENT_NAME
AgentValue(agent) == IF agent = UNSET THEN "undefined" ELSE agent

NewStatsEntry ==
    [tool_uses |-> 0, last_used |-> <<"null">>, directories |-> <<>>, agents_used |-> <<>>]

\* stats[currentProject].tool_uses++
IncrementTwice(n) == n + 2

Increment(n) == n + 1

\* the statistics update of postToolAnalysis, from the document read to the
\* document written
StatsAfter(stats, currentProject, currentDir, agent, t) ==
    LET old == IF currentProject \in DOMAIN stats THEN stats[currentProject]
               ELSE NewStatsEntry
        new == [tool_uses |-> Increment(old.tool_uses),
                last_used |-> ISOString(t),
                directories |-> Dedup(Append(old.directories, currentDir)),
                agents_used |-> StringifyArray(
                                    Dedup(Append(old.agents_used, AgentValue(agent))))]
    IN  [p \in DOMAIN stats \cup {currentProject} |->
            IF p = currentProject THEN new ELSE stats[p]]

ToolUses(file, project) ==
    IF project \in DOMAIN ReadStats(file) THEN ReadStats(file)[project].tool_uses ELSE 0

NoHook ==
    [op |-> "none", tool |-> "", agent |-> "", cwd |-> "", result |-> <<>>,
     project |-> <<>>, reached |-> "", scored |-> FALSE, matches |-> <<>>,
     suggested |-> FALSE, suggestion |-> <<>>]

\* echo ... >> ~/.claude/logs/<file>: fails, and the script goes on, when
\* the directory is missing
AppendLog(log, entry) == IF logsDir THEN Append(log, entry) ELSE log

\* the suggestion the hook logs: the first of the strong matches, when it is
\* not the current project
SuggestionOf(toolResult, currentProject) ==
    LET strongMatches == StrongMatches(toolResult)
    IN  IF StrLen(toolResult) > MinResultLength
            /\ Len(strongMatches) > 0
            /\ strongMatches[1].project # currentProject
        THEN <<strongMatches[1]>>
        ELSE <<>>

\* how far an invocation gets: "skipfile" and "skiptool" are the two exits of
\* the shell script, "syntax" a node script that does not parse, "nologs" the
\* appendFileSync that throws, "stats" an analysis that runs to its end
Reached(tool, toolResult) ==
    IF skipFile THEN "skipfile"
    ELSE IF tool \in SkippedTools THEN "skiptool"
    ELSE IF ~Embeds(toolResult) THEN "syntax"
    ELSE IF ~logsDir THEN "nologs"
    ELSE "stats"

(***************************************************************************)
(* One whole invocation of project-awareness-posttool.sh, not overlapped   *)
(* by another one.                                                         *)
(***************************************************************************)
PostToolHook(tool, agent, cwd, result) ==
    LET toolResult == StripTrailingNewlines(result)
        reached == Reached(tool, toolResult)
        currentProject == CurrentProjectPostTool
        scored == reached = "stats" /\ StrLen(toolResult) > MinResultLength
        shellAgent == IF agent = UNSET THEN "unknown" ELSE agent
    IN  \E suggestion \in {IF reached = "stats"
                           THEN SuggestionOf(toolResult, currentProject) ELSE <<>>} :
        /\ invocations' = invocations + 1
        /\ clock' = clock + 1
        /\ UNCHANGED <<pointerFile, skipFile, logsDir, hookProc>>
        /\ awarenessLog' =
              IF reached = "skipfile" THEN awarenessLog
              ELSE AppendLog(awarenessLog, [tool |-> tool, agent |-> shellAgent])
        /\ activityLog' =
              IF reached = "stats"
              THEN Append(activityLog,
                          [tool |-> tool, agent |-> agent, project |-> currentProject,
                           working_directory |-> cwd, result_size |-> StrLen(toolResult)])
              ELSE activityLog
        /\ suggestionsLog' =
              IF Len(suggestion) > 0
              THEN Append(suggestionsLog,
                          [timestamp |-> ISOString(clock),
                           current_project |-> currentProject,
                           suggested_project |-> suggestion[1].project,
                           num |-> suggestion[1].num, den |-> suggestion[1].den,
                           tool |-> tool])
              ELSE suggestionsLog
        /\ statsFile' =
              IF reached = "stats"
              THEN StatsDocument(StatsAfter(ReadStats(statsFile), currentProject,
                                            cwd, agent, clock))
              ELSE statsFile
        /\ simpleLog' =
              IF reached # "skipfile" /\ reached # "skiptool" /\ pointerFile.exists
              THEN AppendLog(simpleLog,
                             [tool |-> tool,
                              project |-> StripTrailingNewlines(pointerFile.content)])
              ELSE simpleLog
        /\ lastHook' =
              [op |-> "posttool", tool |-> tool, agent |-> agent, cwd |-> cwd,
               result |-> toolResult, project |-> currentProject, reached |-> reached,
               scored |-> scored,
               matches |-> IF scored THEN ProjectMatches(toolResult) ELSE <<>>,
               suggested |-> Len(suggestion) > 0,
               suggestion |-> suggestion]

(***************************************************************************)
(* Inputs of the hooks.                                                    *)
(***************************************************************************)
Tools == {"Read", "Task", "TodoWrite"}
Agents == {"code-reviewer", UNSET}
Directories == {"/work/a", "/work/b"}

\* the contents the pointer file starts with
PointerStates ==
    {NoFile, FileOf(<<>>), FileOf(<<"ChittyOS-Core">>), FileOf(<<"Arias-v-Bianchi", NL>>)}

KeywordsOf(i) == projectKeywords[i].keywords

\* tool results of the invocation sequences
HookResults ==
    { <<>>,
      KeywordsOf(2) \o <<Padding>>,
      <<"it", APOS, "s">> \o KeywordsOf(1) \o <<Padding>> }

\* tool results for the scoring: of every project none, the first two or all
\* of its keywords, then an extra word, then padding or not
Extras == {<<>>, <<"LLC">>, <<"please">>, <<APOS>>}

ResultFor(counts, extra, pad) ==
    Concat([i \in 1..NumProjects |-> SubSeq(KeywordsOf(i), 1, counts[i])])
        \o extra \o pad

KeywordCounts ==
    LET pick(i, c) == CASE c = "none" -> 0 [] c = "two" -> 2 [] c = "all" -> Len(KeywordsOf(i))
    IN  { [i \in 1..NumProjects |-> pick(i, choice[i])] :
            choice \in [1..NumProjects -> {"none", "two", "all"}] }

ScoreResults ==
    { ResultFor(c, e, p) : c \in KeywordCounts, e \in Extras, p \in {<<>>, <<Padding>>} }

\* the hook processes that may overlap
Hooks == {"hook-1", "hook-2"}

ProcIdle ==
    [pc |-> "idle", tool |-> "", agent |-> "", cwd |-> "", result |-> <<>>,
     project |-> <<>>, stats |-> <<>>, readUses |-> 0, reached |-> "", time |-> 0,
     suggestion |-> <<>>]

HookIdle ==
    /\ pointerFile = NoFile
    /\ skipFile = FALSE
    /\ logsDir = TRUE
    /\ statsFile = NoStatsFile
    /\ activityLog = <<>>
    /\ suggestionsLog = <<>>
    /\ awarenessLog = <<>>
    /\ simpleLog = <<>>
    /\ invocations = 0
    /\ lastHook = NoHook
    /\ hookProc = [h \in Hooks |-> ProcIdle]

HookInit ==
    /\ pointerFile \in PointerStates
    /\ skipFile \in BOOLEAN
    /\ logsDir \in BOOLEAN
    /\ statsFile = NoStatsFile
    /\ activityLog = <<>>
    /\ suggestionsLog = <<>>
    /\ awarenessLog = <<>>
    /\ simpleLog = <<>>
    /\ invocations = 0
    /\ lastHook = NoHook
    /\ hookProc = [h \in Hooks |-> ProcIdle]

consFiles == <<dirExists, entries, smartFile, integrationStatus, restoreScripts, runs, last>>

PostTool ==
    /\ invocations < MaxInvocations
    /\ \E tool \in Tools, agent \in Agents, cwd \in Directories, result \in HookResults :
          PostToolHook(tool, agent, cwd, result)
    /\ UNCHANGED consFiles

PostToolOnce ==
    /\ invocations < 1
    /\ \E result \in ScoreResults : PostToolHook("Read", "code-reviewer", "/work/a", result)
    /\ UNCHANGED consFiles

(***************************************************************************)
(* Overlapping invocations of project-awareness-posttool.sh: each process  *)
(* takes the steps of the script one file-system call at a time.           *)
(***************************************************************************)
Active(h) == hookProc[h].pc \notin {"idle", "done"}

Started == invocations + Cardinality({h \in Hooks : Active(h)})

hookFiles == <<pointerFile, skipFile, logsDir>>

EndedHook(pr) ==
    [op |-> "posttool", tool |-> pr.tool, agent |-> pr.agent, cwd |-> pr.cwd,
     result |-> pr.result, project |-> pr.project, reached |-> pr.reached,
     scored |-> pr.reached = "stats" /\ StrLen(pr.result) > MinResultLength,
     matches |-> IF pr.reached = "stats" /\ StrLen(pr.result) > MinResultLength
                 THEN ProjectMatches(pr.result) ELSE <<>>,
     suggested |-> Len(pr.suggestion) > 0,
     suggestion |-> pr.suggestion]

\* the shell script up to the node script: the two exits and the log line
HookBegin(h, tool, agent, cwd, result) ==
    LET toolResult == StripTrailingNewlines(result)
        shellAgent == IF agent = UNSET THEN "unknown" ELSE agent
        exits == skipFile \/ tool \in SkippedTools
        pr == [ProcIdle EXCEPT !.tool = tool, !.agent = agent, !.cwd = cwd,
                               !.result = toolResult, !.time = clock,
                               !.reached = IF skipFile THEN "skipfile"
                                           ELSE IF tool \in SkippedTools THEN "skiptool"
                                           ELSE "",
                               !.pc = IF exits THEN "done" ELSE "node"]
    IN  /\ ~Active(h)
        /\ Started < MaxInvocations
        /\ clock' = clock + 1
        /\ awarenessLog' =
              IF skipFile THEN awarenessLog
              ELSE AppendLog(awarenessLog, [tool |-> tool, agent |-> shellAgent])
        /\ hookProc' = [hookProc EXCEPT ![h] = pr]
        /\ invocations' = IF exits THEN invocations + 1 ELSE invocations
        /\ lastHook' = IF exits THEN EndedHook(pr) ELSE lastHook
        /\ UNCHANGED <<hookFiles, statsFile, activityLog, suggestionsLog, simpleLog>>

\* postToolAnalysis up to the statistics update
HookAnalyze(h) ==
    LET pr == hookProc[h]
        currentProject == CurrentProjectPostTool
        suggestion == SuggestionOf(pr.result, currentProject)
        stops == ~Embeds(pr.result) \/ ~logsDir
    IN  /\ pr.pc = "node"
        /\ hookProc' = [hookProc EXCEPT ![h] =
              [pr EXCEPT !.project = currentProject,
                         !.suggestion = IF stops THEN <<>> ELSE suggestion,
                         !.reached = IF ~Embeds(pr.result) THEN "syntax"
                                     ELSE IF ~logsDir THEN "nologs" ELSE "",
                         !.pc = IF stops THEN "shellend" ELSE "readstats"]]
        /\ activityLog' =
              IF stops THEN activityLog
              ELSE Append(activityLog,
                          [tool |-> pr.tool, agent |-> pr.agent, project |-> currentProject,
                           working_directory |-> pr.cwd, result_size |-> StrLen(pr.result)])
        /\ suggestionsLog' =
              IF ~stops /\ Len(suggestion) > 0
              THEN Append(suggestionsLog,
                          [timestamp |-> ISOString(pr.time),
                           current_project |-> currentProject,
                           suggested_project |-> suggestion[1].project,
                           num |-> suggestion[1].num, den |-> suggestion[1].den,
                           tool |-> pr.tool])
              ELSE suggestionsLog
        /\ UNCHANGED <<hookFiles, statsFile, awarenessLog, simpleLog, invocations,
                       lastHook, clock>>

\* stats = JSON.parse(fs.readFileSync(statsFile, 'utf8'))
HookReadStats(h) ==
    LET pr == hookProc[h]
    IN  /\ pr.pc = "readstats"
        /\ hookProc' = [hookProc EXCEPT ![h] =
              [pr EXCEPT !.stats = ReadStats(statsFile),
                         !.readUses = ToolUses(statsFile, pr.project),
                         !.pc = "truncate"]]
        /\ UNCHANGED <<hookFiles, statsFile, activityLog, suggestionsLog, awarenessLog,
                       simpleLog, invocations, lastHook, clock>>

\* the variable stats of a process when it comes to write: what it read
\* at line 322, however old; the file is not read again
LocalStatsReadAgain(h) == ReadStats(statsFile)

LocalStats(h) == hookProc[h].stats

\* the document a process writes
StatsToWrite(h) ==
    StatsAfter(hookProc[h].stats, hookProc[h].project, hookProc[h].cwd,
               hookProc[h].agent, hookProc[h].time)

\* fs.writeFileSync opens the file with O_TRUNC ...
HookTruncate(h) ==
    LET pr == hookProc[h]
    IN  /\ pr.pc = "truncate"
        /\ hookProc' = [hookProc EXCEPT ![h] =
              [pr EXCEPT !.stats = LocalStats(h), !.pc = "writedata"]]
        /\ statsFile' = TruncatedStatsFile
        /\ UNCHANGED <<hookFiles, activityLog, suggestionsLog, awarenessLog, simpleLog,
                       invocations, lastHook, clock>>

\* ... and then writes the document
HookWriteData(h) ==
    LET pr == hookProc[h]
    IN  /\ pr.pc = "writedata"
        /\ hookProc' = [hookProc EXCEPT ![h] =
              [pr EXCEPT !.pc = "shellend", !.reached = "stats"]]
        /\ statsFile' = StatsDocument(StatsToWrite(h))
        /\ UNCHANGED <<hookFiles, activityLog, suggestionsLog, awarenessLog, simpleLog,
                       invocations, lastHook, clock>>

\* the end of the shell script: the line in project-activity-simple.log
HookShellEnd(h) ==
    LET pr == hookProc[h]
    IN  /\ pr.pc = "shellend"
        /\ hookProc' = [hookProc EXCEPT ![h] = [pr EXCEPT !.pc = "done"]]
        /\ simpleLog' =
              IF pointerFile.exists
              THEN AppendLog(simpleLog,
                             [tool |-> pr.tool,
                              project |-> StripTrailingNewlines(pointerFile.content)])
              ELSE simpleLog
        /\ invocations' = invocations + 1
        /\ lastHook' = EndedHook(pr)
        /\ UNCHANGED <<hookFiles, statsFile, activityLog, suggestionsLog, awarenessLog,
                       clock>>

RaceTools == {"Read", "Task"}

RaceInit ==
    /\ pointerFile \in {NoFile, FileOf(<<"ChittyOS-Core">>)}
    /\ skipFile = FALSE
    /\ logsDir \in BOOLEAN
    /\ statsFile = NoStatsFile
    /\ activityLog = <<>>
    /\ suggestionsLog = <<>>
    /\ awarenessLog = <<>>
    /\ simpleLog = <<>>
    /\ invocations = 0
    /\ lastHook = NoHook
    /\ hookProc = [h \in Hooks |-> ProcIdle]

Begin ==
    \E h \in Hooks, tool \in RaceTools, cwd \in Directories :
        HookBegin(h, tool, "code-reviewer", cwd, <<>>)
Analyze == \E h \in Hooks : HookAnalyze(h)
ReadStatsStep == \E h \in Hooks : HookReadStats(h)
Truncate == \E h \in Hooks : HookTruncate(h)
WriteData == \E h \in Hooks : HookWriteData(h)
ShellEnd == \E h \in Hooks : HookShellEnd(h)

(***************************************************************************)
(* project-awareness-pretool.sh: the pre-tool hook asks whether to switch  *)
(* the current project.  ProjectAnalyzer (lib/project-analyzer.js) is not  *)
(* part of the source: what it detects is an input of the hook.            *)
(***************************************************************************)
VARIABLES
    switchesLog,     \* ~/.claude/logs/project-switches.log
    preInvocations,  \* pre-tool hook invocations that have ended
    lastPre,         \* the last pre-tool invocation: inputs and outcome
    prevPre,         \* the pre-tool invocation before the last one
    postHistory,     \* the last two post-tool invocations, with the files they met
    projectsRoot,    \* whether ~/.claude/projects exists
    entryLast        \* the last run of a script entry point and how it ended

preVars == <<switchesLog, preInvocations, lastPre, prevPre, postHistory,
             projectsRoot, entryLast>>

\* fileProject.confidence > 0.6, in tenths
ConfidenceFloorTenths == 6

\* what detectProjectFromFile and analyzeDirectory(...).primary_project give
NoDetection == [kind |-> "none", project |-> <<>>, tenths |-> 0]
Detection(project, tenths) == [kind |-> "project", project |-> project, tenths |-> tenths]
AnalyzerThrows == [kind |-> "throws", project |-> <<>>, tenths |-> 0]

Detections ==
    {NoDetection, AnalyzerThrows,
     Detection(<<"ChittyFinance">>, 6), Detection(<<"ChittyFinance">>, 9),
     Detection(<<"ChittyOS-Core">>, 8), Detection(<<"Alpha">>, 7)}

IsConfident(d) == d.kind = "project" /\ d.tenths > ConfidenceFloorTenths

\* the tool input: whether JSON.parse accepts it, which of the keys
\* file_path and path it has, and whether the text names the hook's own
\* commands (project-awareness, chittychat)
ToolInput(json, file_path, path, own) ==
    [json |-> json, file_path |-> file_path, path |-> path, own |-> own]

\* toolData.file_path and toolData.path: a text that is no JSON becomes
\* { raw_input: toolInput }, which has neither key
HasFilePath(input) == input.json /\ input.file_path
HasPath(input) == input.json /\ input.path

\* projectSuggestion: the project of the file, replaced by the project of
\* the directory when both are confident
ProjectSuggestion(input, file, path) ==
    LET fromFile == IF HasFilePath(input) /\ IsConfident(file) THEN file ELSE NoDetection
    IN  IF HasPath(input) /\ IsConfident(path) THEN path ELSE fromFile

\* the analysis also stops when the skip-project-prompts file exists
AnalysisThrowsOrSkipped(input, file, path) ==
    \/ skipFile
    \/ HasFilePath(input) /\ file.kind = "throws"
    \/ HasPath(input) /\ path.kind = "throws"

\* the analyzer throws inside the try block
AnalysisThrows(input, file, path) ==
    \/ HasFilePath(input) /\ file.kind = "throws"
    \/ HasPath(input) /\ path.kind = "throws"

\* readFileSync(current-project).trim() || 'none'; the file must exist
CurrentProjectPreTool ==
    IF Trim(pointerFile.content) = <<>> THEN NONE ELSE Trim(pointerFile.content)

\* how far the invocation goes
PreReached(tool, input, file, path) ==
    IF tool \in SkippedTools THEN "skiptool"
    ELSE IF tool = "Bash" /\ input.own THEN "owncommand"
    ELSE IF AnalysisThrows(input, file, path) THEN "caught"
    ELSE IF ProjectSuggestion(input, file, path).kind = "none" THEN "nosuggestion"
    ELSE IF ~pointerFile.exists THEN "caught"
    ELSE IF ProjectSuggestion(input, file, path).project = CurrentProjectPreTool THEN "same"
    ELSE "prompt"

\* the line the user types; NoAnswer when standard input has ended
NoAnswer == <<"(end of input)">>
Answers == {<<"y">>, <<" ", "Yes">>, <<"s">>, <<"n">>, <<>>, NoAnswer}

LowerAnswerTok(t) ==
    CASE t = "Yes" -> "yes"
      [] t = "Y" -> "y"
      [] t = "S" -> "s"
      [] OTHER -> t

\* answer.toLowerCase().trim()
ResponseOf(answer) == Trim([i \in 1..Len(answer) |-> LowerAnswerTok(answer[i])])

\* [y/N/s]: an answer that is not y, yes, s or skip changes nothing
AcceptsSwitchOrDefault(response) == response \in {<<"y">>, <<"yes">>, <<>>}

AcceptsSwitch(response) == response = <<"y">> \/ response = <<"yes">>

AcceptsSkip(response) == response = <<"s">> \/ response = <<"skip">>

NoPre ==
    [op |-> "none", tool |-> "", input |-> ToolInput(FALSE, FALSE, FALSE, FALSE),
     file |-> NoDetection, path |-> NoDetection, answer |-> <<>>,
     project |-> <<>>, reached |-> "", prompted |-> FALSE, uncaught |-> FALSE,
     skipBefore |-> FALSE, before |-> NoFile, after |-> NoFile]

NoEntry == [entry |-> "none", outcome |-> ""]

PreIdle ==
    /\ switchesLog = <<>>
    /\ preInvocations = 0
    /\ lastPre = NoPre
    /\ prevPre = NoPre
    /\ postHistory = <<>>
    /\ projectsRoot = TRUE
    /\ entryLast = NoEntry

\* one whole invocation of project-awareness-pretool.sh
PreToolHook(tool, input, file, path, answer) ==
    LET reached == PreReached(tool, input, file, path)
        prompted == reached = "prompt"
        suggestion == ProjectSuggestion(input, file, path)
        answered == prompted /\ answer # NoAnswer
        switched == answered /\ AcceptsSwitch(ResponseOf(answer))
        skipped == answered /\ ~switched /\ AcceptsSkip(ResponseOf(answer))
        after == IF switched THEN FileOf(suggestion.project) ELSE pointerFile
    IN  /\ preInvocations' = preInvocations + 1
        /\ clock' = clock + 1
        /\ awarenessLog' = AppendLog(awarenessLog, [tool |-> tool, input |-> input])
        /\ pointerFile' = after
        /\ skipFile' = (skipFile \/ skipped)
        \* appendFileSync runs in the readline callback, outside the try
        \* block: with no logs directory the exception is not caught
        /\ switchesLog' =
              IF switched /\ logsDir
              THEN Append(switchesLog,
                          [timestamp |-> ISOString(clock),
                           from |-> CurrentProjectPreTool, to |-> suggestion.project])
              ELSE switchesLog
        /\ prevPre' = lastPre
        /\ lastPre' =
              [op |-> "pretool", tool |-> tool, input |-> input, file |-> file,
               path |-> path, answer |-> answer,
               project |-> IF reached \in {"same", "prompt"}
                           THEN CurrentProjectPreTool ELSE <<>>,
               reached |-> reached, prompted |-> prompted,
               uncaught |-> switched /\ ~logsDir,
               skipBefore |-> skipFile, before |-> pointerFile, after |-> after]
        /\ UNCHANGED <<logsDir, statsFile, activityLog, suggestionsLog, simpleLog,
                       invocations, lastHook, hookProc, postHistory, projectsRoot,
                       entryLast>>

(***************************************************************************)
(* execute-strategic-deployment.sh (part_003, from line 919) and           *)
(* deploy-phase1.sh (part_004).  Both run under set -euo pipefail.         *)
(***************************************************************************)
VARIABLES
    mode,               \* how the script was started: deploy, rollback, health, phase1
    dpc,                \* the position of the script: [at, i]
    DEPLOYED_SERVICES,  \* the array of that name
    CREATED_RESOURCES,  \* the array of that name
    ROLLBACK_COMMANDS,  \* the array of that name
    cloud,              \* the account and the project root: [existing, dirs]
    created,            \* resources and workers the run has created
    events,             \* deployments and health checks, in the order they happened
    executed,           \* rollback commands that were run, with their outcome
    exitStatus,         \* Running, or the exit status of the script
    errorExit,          \* error_exit has been called
    rollbackFile,       \* the rollback file: ROLLBACK_LOG, or the argument of rollback
    pending,            \* manual_rollback: the lines still to read
    health              \* check_service_health: arguments, loop counter, probes, sleeps

deployVars == <<mode, dpc, DEPLOYED_SERVICES, CREATED_RESOURCES, ROLLBACK_COMMANDS,
                cloud, created, events, executed, exitStatus, errorExit,
                rollbackFile, pending, health>>

Running == -1

\* kv_namespaces, by binding
KvNamespaces ==
    <<"SESSION_STORE", "PROJECT_STORE", "CROSS_PLATFORM_SYNC", "AUTH_STORE", "MCP_SESSIONS">>

\* r2_buckets
R2Buckets == <<"chittyops-project-data", "chittyops-analytics", "chittyops-session-backups">>

At(at, i) == [at |-> at, i |-> i]

Kv(binding) == [kind |-> "kv", name |-> binding]
KvPreview(binding) == [kind |-> "kv-preview", name |-> binding]
R2(bucket) == [kind |-> "r2", name |-> bucket]
Worker(name) == [kind |-> "worker", name |-> name]

\* the commands given to add_rollback_command
DeleteNamespace(binding) == <<"wrangler kv:namespace delete --binding=", binding>>
DeleteBucket(bucket) == <<"wrangler r2 bucket delete ", bucket>>
DeleteWorker(name) == <<"wrangler delete --name ", name>>

\* the rollback command that removes a resource
RollbackCommandOf(resource) ==
    CASE resource.kind = "kv" -> DeleteNamespace(resource.name)
      [] resource.kind = "kv-preview" -> DeleteNamespace(resource.name) \o <<" --preview">>
      [] resource.kind = "r2" -> DeleteBucket(resource.name)
      [] resource.kind = "worker" -> DeleteWorker(resource.name)

\* add_rollback_command: ROLLBACK_COMMANDS+=("$command")
add_rollback_command(commands, command) == Append(commands, command)

NoHealth ==
    [service |-> "", max |-> 0, wait |-> 0, i |-> 0, probes |-> <<>>, sleeps |-> 0,
     waited |-> 0]

NoRollbackFile == [exists |-> FALSE, commands |-> <<>>]

DeployIdle ==
    /\ mode = "none"
    /\ dpc = At("idle", 0)
    /\ DEPLOYED_SERVICES = <<>>
    /\ CREATED_RESOURCES = <<>>
    /\ ROLLBACK_COMMANDS = <<>>
    /\ cloud = [existing |-> {}, dirs |-> {}]
    /\ created = {}
    /\ events = <<>>
    /\ executed = <<>>
    /\ exitStatus = Running
    /\ errorExit = FALSE
    /\ rollbackFile = NoRollbackFile
    /\ pending = <<>>
    /\ health = NoHealth

\* save_rollback_state: printf '%s\n' "${ROLLBACK_COMMANDS[@]}" | jq -R . | jq -s .
\* an empty array prints one empty line, which becomes one empty string
SavedCommands(commands) == IF commands = <<>> THEN << <<>> >> ELSE commands

save_rollback_state == [exists |-> TRUE, commands |-> SavedCommands(ROLLBACK_COMMANDS)]

\* the status with which the script ends when a rollback command has failed:
\* the else branch calls error, which no line of the script defines, and
\* set -e ends the script with the status of the unknown command
CommandNotFound == 127

DeployFrame(changed) ==
    \* the variables of the deployment that an action leaves alone
    /\ ("mode" \notin changed => UNCHANGED mode)
    /\ ("DEPLOYED_SERVICES" \notin changed => UNCHANGED DEPLOYED_SERVICES)
    /\ ("CREATED_RESOURCES" \notin changed => UNCHANGED CREATED_RESOURCES)
    /\ ("ROLLBACK_COMMANDS" \notin changed => UNCHANGED ROLLBACK_COMMANDS)
    /\ ("created" \notin changed => UNCHANGED created)
    /\ ("events" \notin changed => UNCHANGED events)
    /\ ("executed" \notin changed => UNCHANGED executed)
    /\ ("exitStatus" \notin changed => UNCHANGED exitStatus)
    /\ ("errorExit" \notin changed => UNCHANGED errorExit)
    /\ ("rollbackFile" \notin changed => UNCHANGED rollbackFile)
    /\ ("pending" \notin changed => UNCHANGED pending)
    /\ ("health" \notin changed => UNCHANGED health)
    /\ ("cloud" \notin changed => UNCHANGED cloud)

\* error_exit: the message, then emergency_rollback from the last command
error_exit(changed) ==
    /\ errorExit' = TRUE
    /\ DeployFrame(changed \cup {"errorExit"})
    /\ dpc' = At("emergency_rollback", Len(ROLLBACK_COMMANDS'))

\* set -e ends the script where a command fails; nothing is rolled back
Exit(status, changed) ==
    /\ exitStatus' = status
    /\ dpc' = At("exited", 0)
    /\ DeployFrame(changed \cup {"exitStatus"})

\* emergency_rollback: one turn of the loop, i from the last index down;
\* after the loop error_exit goes on to exit 1
EmergencyRollbackStep ==
    /\ dpc.at = "emergency_rollback"
    /\ IF dpc.i = 0
       THEN Exit(1, {})
       ELSE \E ok \in BOOLEAN :
              /\ executed' = Append(executed, [cmd |-> ROLLBACK_COMMANDS[dpc.i], ok |-> ok])
              /\ IF ok
                 THEN /\ dpc' = At("emergency_rollback", dpc.i - 1)
                      /\ DeployFrame({"executed"})
                 ELSE Exit(CommandNotFound, {"executed"})

Min2(a, b) == IF a < b THEN a ELSE b

\* the stages of a run up to the first that fails, all of them when none
\* does: a failing command, exit and error_exit end the script
StageEventsNoStop(run, stages, failAt) ==
    [k \in 1..Len(stages) |-> [run |-> run, what |-> stages[k], ok |-> k # failAt]]

StageEvents(run, stages, failAt) ==
    [k \in 1..Min2(failAt, Len(stages)) |->
        [run |-> run, what |-> stages[k], ok |-> k < failAt]]

CoreStages == <<"staging-deploy", "staging-health", "production-deploy", "production-health">>
McpStages == <<"mcp-deploy", "mcp-health">>
AuthStages == <<"auth-deploy", "auth-health">>
MonitoringStages == <<"monitor-project-awareness", "monitor-mcp", "monitor-auth">>

\* deploy_workers and deploy_all_workers, then validate_deployment
Phase1Stages == CoreStages \o McpStages \o AuthStages \o <<"validate">>

IsDeploy(what) ==
    what \in {"staging-deploy", "production-deploy", "mcp-deploy", "auth-deploy"}

\* the name added to DEPLOYED_SERVICES
ServiceOf(what) ==
    CASE what = "staging-deploy" -> "project-awareness-staging"
      [] what = "production-deploy" -> "project-awareness-production"
      [] what = "mcp-deploy" -> "mcp-server"
      [] what = "auth-deploy" -> "auth-provider"

\* the name of the worker in wrangler delete --name
WorkerOf(what) ==
    CASE what = "staging-deploy" -> "chittyops-project-awareness-staging"
      [] what = "production-deploy" -> "chittyops-project-awareness"
      [] what = "mcp-deploy" -> "chittyos-mcp-server"
      [] what = "auth-deploy" -> "chittyos-auth-provider"

IsDeployed(e) == IsDeploy(e.what) /\ e.ok

DeployedIn(evs) == SelectSeq(evs, IsDeployed)

ServicesOf(evs) == [k \in 1..Len(DeployedIn(evs)) |-> ServiceOf(DeployedIn(evs)[k].what)]

WorkersOf(evs) == {Worker(WorkerOf(DeployedIn(evs)[k].what)) : k \in 1..Len(DeployedIn(evs))}

RECURSIVE AddRollbackCommands(_, _)
AddRollbackCommands(commands, evs) ==
    IF evs = <<>> THEN commands
    ELSE AddRollbackCommands(
             IF IsDeployed(Head(evs))
             THEN add_rollback_command(commands, DeleteWorker(WorkerOf(Head(evs).what)))
             ELSE commands,
             Tail(evs))

\* main up to check_prerequisites: the first save_rollback_state, then the
\* checks, each of which ends in error_exit
MainStart ==
    /\ mode = "deploy"
    /\ dpc.at = "main"
    /\ rollbackFile' = save_rollback_state
    /\ \E ok \in BOOLEAN :
          IF ok
          THEN /\ dpc' = At("kv", 1)
               /\ DeployFrame({"rollbackFile"})
          ELSE error_exit({"rollbackFile"})

\* setup_infrastructure: one turn of the loop over kv_namespaces
SetupKvNamespace ==
    /\ dpc.at = "kv"
    /\ LET binding == KvNamespaces[dpc.i]
           production == Kv(binding) \notin cloud.existing
           preview == KvPreview(binding) \notin cloud.existing
           new == (IF production THEN {Kv(binding)} ELSE {})
                      \cup (IF preview THEN {KvPreview(binding)} ELSE {})
       IN  /\ cloud' = [cloud EXCEPT !.existing = @ \cup new]
           /\ created' = created \cup new
           /\ ROLLBACK_COMMANDS' =
                 IF production
                 THEN add_rollback_command(ROLLBACK_COMMANDS, DeleteNamespace(binding))
                 ELSE ROLLBACK_COMMANDS
           /\ CREATED_RESOURCES' =
                 IF production
                 THEN Append(CREATED_RESOURCES, <<"kv:", binding>>)
                 ELSE CREATED_RESOURCES
    /\ dpc' = IF dpc.i < Len(KvNamespaces) THEN At("kv", dpc.i + 1) ELSE At("r2", 1)
    /\ DeployFrame({"cloud", "created", "ROLLBACK_COMMANDS", "CREATED_RESOURCES"})

\* setup_infrastructure: one turn of the loop over r2_buckets
SetupR2Bucket ==
    /\ dpc.at = "r2"
    /\ LET bucket == R2Buckets[dpc.i]
           new == R2(bucket) \notin cloud.existing
       IN  /\ cloud' = [cloud EXCEPT !.existing = @ \cup (IF new THEN {R2(bucket)} ELSE {})]
           /\ created' = created \cup (IF new THEN {R2(bucket)} ELSE {})
           /\ ROLLBACK_COMMANDS' =
                 IF new
                 THEN add_rollback_command(ROLLBACK_COMMANDS, DeleteBucket(bucket))
                 ELSE ROLLBACK_COMMANDS
           /\ CREATED_RESOURCES' =
                 IF new
                 THEN Append(CREATED_RESOURCES, <<"r2:", bucket>>)
                 ELSE CREATED_RESOURCES
    /\ dpc' = IF dpc.i < Len(R2Buckets) THEN At("r2", dpc.i + 1) ELSE At("core", 0)
    /\ DeployFrame({"cloud", "created", "ROLLBACK_COMMANDS", "CREATED_RESOURCES"})

\* a deployment phase: npm ci, then the stages; a failing npm ci ends the
\* script by set -e, a failing stage by error_exit
DeployPhase(at, stages, next) ==
    /\ mode = "deploy"
    /\ dpc.at = at
    /\ \E failAt \in 0..(Len(stages) + 1) :
          \E ev \in {StageEvents("strategic", stages, failAt)} :
              /\ events' = events \o ev
              /\ DEPLOYED_SERVICES' = DEPLOYED_SERVICES \o ServicesOf(ev)
              /\ ROLLBACK_COMMANDS' = AddRollbackCommands(ROLLBACK_COMMANDS, ev)
              /\ created' = created \cup WorkersOf(ev)
              /\ LET changed == {"events", "DEPLOYED_SERVICES", "ROLLBACK_COMMANDS", "created"}
                 IN  IF failAt = 0 THEN Exit(1, changed)
                     ELSE IF failAt <= Len(stages) THEN error_exit(changed)
                     ELSE /\ dpc' = At(next, 0)
                          /\ DeployFrame(changed)

deploy_core_workers == DeployPhase("core", CoreStages, "mcp")

WorkerDirs == {"mcp-server-worker", "auth-worker"}

\* what deploy-phase1.sh creates and keeps no record of
Phase1Resources ==
    {Kv(KvNamespaces[k]) : k \in 1..Len(KvNamespaces)}
        \cup {KvPreview(KvNamespaces[k]) : k \in 1..Len(KvNamespaces)}
        \cup {R2("chittyops-project-data"), R2("chittyops-project-data-preview"),
              R2("chittyops-analytics"), R2("chittyops-analytics-preview")}

\* main of deploy-phase1.sh; failAt = 0 is a failing prerequisite
Phase1Run(failAt) ==
    LET ev == StageEvents("phase1", Phase1Stages, failAt)
        new == IF failAt = 0 THEN {} ELSE Phase1Resources \ cloud.existing
    IN  [events |-> ev,
         dirs |-> IF failAt = 0 THEN cloud.dirs ELSE WorkerDirs,
         existing |-> cloud.existing \cup new,
         created |-> new \cup WorkersOf(ev),
         status |-> IF failAt > Len(Phase1Stages) THEN 0 ELSE 1]

\* deploy_mcp_server and deploy_auth_provider: the worker directory is
\* missing and deploy-phase1.sh runs as a child; its failure ends the script
CreateWorkers ==
    /\ mode = "deploy"
    /\ \/ dpc.at = "mcp" /\ "mcp-server-worker" \notin cloud.dirs
       \/ dpc.at = "auth" /\ "auth-worker" \notin cloud.dirs
    /\ \E failAt \in 0..(Len(Phase1Stages) + 1) :
          \E child \in {Phase1Run(failAt)} :
              /\ events' = events \o child.events
              /\ cloud' = [existing |-> child.existing, dirs |-> child.dirs]
              /\ created' = created \cup child.created
              /\ IF child.status = 0
                 THEN /\ dpc' = dpc
                      /\ DeployFrame({"events", "cloud", "created"})
                 ELSE Exit(child.status, {"events", "cloud", "created"})

deploy_mcp_server ==
    /\ "mcp-server-worker" \in cloud.dirs
    /\ DeployPhase("mcp", McpStages, "auth")

deploy_auth_provider ==
    /\ "auth-worker" \in cloud.dirs
    /\ DeployPhase("auth", AuthStages, "monitoring")

\* setup_monitoring: check_service_health for the three endpoints
setup_monitoring ==
    /\ mode = "deploy"
    /\ dpc.at = "monitoring"
    /\ \E failAt \in 1..(Len(MonitoringStages) + 1) :
          /\ events' = events \o StageEvents("strategic", MonitoringStages, failAt)
          /\ IF failAt <= Len(MonitoringStages)
             THEN error_exit({"events"})
             ELSE /\ dpc' = At("finish", 0)
                  /\ DeployFrame({"events"})

\* setup_secrets, validate_deployment, generate_deployment_report and the
\* last save_rollback_state; a command that fails ends the script by set -e
MainFinish ==
    /\ mode = "deploy"
    /\ dpc.at = "finish"
    /\ \E ok \in BOOLEAN :
          IF ok
          THEN /\ rollbackFile' = save_rollback_state
               /\ Exit(0, {"rollbackFile"})
          ELSE Exit(1, {})

\* deploy-phase1.sh started on its own
Phase1Main ==
    /\ mode = "phase1"
    /\ dpc.at = "main"
    /\ \E failAt \in 0..(Len(Phase1Stages) + 1) :
          \E run \in {Phase1Run(failAt)} :
              /\ events' = events \o run.events
              /\ cloud' = [existing |-> run.existing, dirs |-> run.dirs]
              /\ created' = created \cup run.created
              /\ Exit(run.status, {"events", "cloud", "created"})

\* [ $i -lt $max_attempts ]: the wait follows every probe but the last
ShouldSleepAlways(i, max_attempts) == TRUE

ShouldSleep(i, max_attempts) == i < max_attempts

\* check_service_health: curl in turn i of the loop
HealthProbe ==
    /\ dpc.at = "health"
    /\ health.i <= health.max
    /\ \E ok \in BOOLEAN :
          /\ health' = [health EXCEPT !.probes = Append(@, ok),
                                      !.i = IF ok \/ ShouldSleep(health.i, health.max)
                                            THEN @ ELSE @ + 1]
          /\ dpc' = IF ok THEN At("returned", 0)
                    ELSE IF ShouldSleep(health.i, health.max) THEN At("sleep", 0)
                    ELSE dpc
    /\ DeployFrame({"health"})

\* check_service_health: sleep $wait_seconds, then i++
HealthSleep ==
    /\ dpc.at = "sleep"
    /\ health' = [health EXCEPT !.sleeps = @ + 1, !.waited = @ + health.wait, !.i = @ + 1]
    /\ dpc' = At("health", 0)
    /\ DeployFrame({"health"})

\* check_service_health: the loop has ended without return 0
HealthGiveUp ==
    /\ dpc.at = "health"
    /\ health.i > health.max
    /\ error_exit({})

\* manual_rollback: the test of the file, then jq -r '.rollback_commands[]'
ManualStart ==
    /\ mode = "rollback"
    /\ dpc.at = "main"
    /\ IF rollbackFile.exists
       THEN /\ pending' = rollbackFile.commands
            /\ dpc' = At("read", 0)
            /\ DeployFrame({"pending"})
       ELSE error_exit({})

\* manual_rollback: one turn of the while read loop; an empty line is
\* passed over; after a command that fails the else branch calls error
ManualRead ==
    /\ dpc.at = "read"
    /\ pending # <<>>
    /\ pending' = Tail(pending)
    /\ IF Head(pending) = <<>>
       THEN /\ dpc' = dpc
            /\ DeployFrame({"pending"})
       ELSE \E ok \in BOOLEAN :
              /\ executed' = Append(executed, [cmd |-> Head(pending), ok |-> ok])
              /\ IF ok
                 THEN /\ dpc' = dpc
                      /\ DeployFrame({"pending", "executed"})
                 ELSE Exit(CommandNotFound, {"pending", "executed"})

\* manual_rollback: success "Manual rollback completed"
ManualDone ==
    /\ dpc.at = "read"
    /\ pending = <<>>
    /\ events' = Append(events, [run |-> "rollback", what |-> "completed", ok |-> TRUE])
    /\ Exit(0, {"events"})

(***************************************************************************)
(* setup-secrets.js: class SecretsSetup.  A secret value is the sequence   *)
(* of its characters.                                                      *)
(***************************************************************************)
VARIABLES
    secrets,        \* this.secrets, a Map: the entries in insertion order
    environment,    \* this.environment
    spc,            \* the position of run(): [at, i]
    entered,        \* what collectSecret got for each configuration so far
    wranglerPuts,   \* the calls of wrangler secret put, with their outcome
    backupFile,     \* secrets-backup-<environment>-<time>.json
    setupExit       \* Running, or how the process ended

secretVars == <<secrets, environment, spc, entered, wranglerPuts, backupFile, setupExit>>

Repeat(c, n) == [i \in 1..n |-> c]

MinLength(n) == [kind |-> "min", n |-> n, prefix |-> <<>>]
ExactLength(n) == [kind |-> "exact", n |-> n, prefix |-> <<>>]
StartsWithRule(prefix) == [kind |-> "prefix", n |-> 0, prefix |-> prefix]

\* generate: crypto.randomBytes(bytes).toString('hex'), 0 for no generator
SecretConfig(name, required, bytes, rule) ==
    [name |-> name, required |-> required, bytes |-> bytes, rule |-> rule]

SECRETS_CONFIG ==
    <<SecretConfig("CHITTYID_API_KEY", TRUE, 0, MinLength(32)),
      SecretConfig("CHITTYCHAT_API_KEY", TRUE, 0, MinLength(32)),
      SecretConfig("REGISTRY_API_KEY", TRUE, 0, MinLength(32)),
      SecretConfig("SESSION_ENCRYPTION_KEY", TRUE, 32, ExactLength(64)),
      SecretConfig("JWT_SECRET", TRUE, 32, MinLength(32)),
      SecretConfig("WEBHOOK_SECRET", FALSE, 16, MinLength(16)),
      SecretConfig("OPENAI_API_KEY", FALSE, 0, StartsWithRule(<<"s", "k", "-">>))>>

\* value.startsWith(prefix)
StartsWith(value, prefix) ==
    Len(value) >= Len(prefix) /\ SubSeq(value, 1, Len(prefix)) = prefix

\* config.validate(value)
validateAlways(config, value) == TRUE

validate(config, value) ==
    CASE config.rule.kind = "min" -> Len(value) >= config.rule.n
      [] config.rule.kind = "exact" -> Len(value) = config.rule.n
      [] config.rule.kind = "prefix" -> StartsWith(value, config.rule.prefix)

\* config.generate(): two hexadecimal digits for each random byte
generate(config) == [i \in 1..(2 * config.bytes) |-> IF i % 2 = 1 THEN "4" ELSE "f"]

\* maskSecret
maskSecretKeepsFive(value) ==
    IF Len(value) <= 8 THEN Repeat("*", Len(value))
    ELSE SubSeq(value, 1, 5) \o Repeat("*", Len(value) - 9)
             \o SubSeq(value, Len(value) - 3, Len(value))

maskSecret(value) ==
    IF Len(value) <= 8 THEN Repeat("*", Len(value))
    ELSE SubSeq(value, 1, 4) \o Repeat("*", Len(value) - 8)
             \o SubSeq(value, Len(value) - 3, Len(value))

\* askQuestion: answer.trim()
askQuestion(answer) == Trim(answer)

\* toLowerCase() === 'y'
SaysY(answer) == answer = <<"y">> \/ answer = <<"Y">>

SecretsIdle ==
    /\ secrets = <<>>
    /\ environment = "production"
    /\ spc = At("idle", 0)
    /\ entered = <<>>
    /\ wranglerPuts = <<>>
    /\ backupFile = NoFile
    /\ setupExit = Running

\* the catch of run(): the message, then process.exit(1)
SetupFails ==
    /\ setupExit' = 1
    /\ spc' = At("exited", 0)

checkWrangler ==
    /\ spc.at = "run"
    /\ \E ok \in BOOLEAN :
          IF ok THEN spc' = At("selectEnvironment", 0) /\ UNCHANGED setupExit
          ELSE SetupFails
    /\ UNCHANGED <<secrets, environment, entered, wranglerPuts, backupFile>>

EnvironmentAnswers == {<<>>, <<"staging">>, <<" ", "production">>, <<"dev">>}

selectEnvironment ==
    /\ spc.at = "selectEnvironment"
    /\ \E answer \in EnvironmentAnswers :
          LET chosen == IF askQuestion(answer) = <<>> THEN "production"
                        ELSE askQuestion(answer)[1]
          IN  /\ environment' = chosen
              /\ IF chosen \in {"production", "staging"}
                 THEN spc' = At("collectSecret", 1) /\ UNCHANGED setupExit
                 ELSE SetupFails
    /\ UNCHANGED <<secrets, entered, wranglerPuts, backupFile>>

\* what the user types at Enter value
TypedValues ==
    {<<>>,
     <<" ">>,
     <<"s", "h", "o", "r", "t">>,
     <<"k", "e", "y", "-">> \o Repeat("x", 24) \o <<"-", "e", "n", "d">>,
     <<"a", "b", "c", "d">> \o Repeat("*", 24) \o <<"w", "x", "y", "z">>,
     <<"s", "k", "-", "a", "b", "c">>,
     <<"s", "k", "-", "a", "b", "c", "d", "e">>,
     <<"s", "k", "-", "a", "*", "b", "c", "d", "e">>,
     <<"s", "k", "-", "p", "r", "o", "j", "-", "a", "b", "c", "d">>}

\* collectSecret for SECRETS_CONFIG[i]: Generate automatically?, Enter
\* value, the three tests, this.secrets.set
collectSecret ==
    /\ spc.at = "collectSecret"
    /\ \E generated \in BOOLEAN, typed \in TypedValues :
          LET config == SECRETS_CONFIG[spc.i]
              made == IF config.bytes > 0 /\ generated THEN generate(config) ELSE <<>>
              value == IF made # <<>> THEN made ELSE askQuestion(typed)
              outcome == IF value = <<>> /\ ~config.required THEN "skipped"
                         ELSE IF value = <<>> THEN "required"
                         ELSE IF ~validate(config, value) THEN "validation"
                         ELSE "collected"
          IN  /\ generated => config.bytes > 0
              /\ made # <<>> => typed = <<>>
              /\ entered' = Append(entered, [name |-> config.name, value |-> value,
                                             outcome |-> outcome])
              /\ secrets' = IF outcome = "collected"
                            THEN Append(secrets, [name |-> config.name, value |-> value])
                            ELSE secrets
              /\ IF outcome \in {"required", "validation"} THEN SetupFails
                 ELSE /\ spc' = IF spc.i < Len(SECRETS_CONFIG)
                                THEN At("collectSecret", spc.i + 1)
                                ELSE At("confirmAndDeploy", 0)
                      /\ UNCHANGED setupExit
    /\ UNCHANGED <<environment, wranglerPuts, backupFile>>

ConfirmAnswers == {<<"y">>, <<"Y">>, <<"yes">>, <<"n">>, <<>>}

\* confirmAndDeploy up to the question: the summary, then Proceed?
confirmAndDeploy ==
    /\ spc.at = "confirmAndDeploy"
    /\ \E answer \in ConfirmAnswers :
          IF SaysY(askQuestion(answer))
          THEN spc' = At("setSecret", 1) /\ UNCHANGED setupExit
          ELSE spc' = At("cancelled", 0) /\ setupExit' = 0
    /\ UNCHANGED <<secrets, environment, entered, wranglerPuts, backupFile>>

\* setSecret: if (error) reject(error), which ends the loop and the run
RejectsNever(ok) == FALSE

Rejects(ok) == ~ok

\* confirmAndDeploy: one turn of the loop over this.secrets.entries()
setSecret ==
    /\ spc.at = "setSecret"
    /\ spc.i <= Len(secrets)
    /\ \E ok \in BOOLEAN :
          /\ wranglerPuts' = Append(wranglerPuts,
                                    [name |-> secrets[spc.i].name,
                                     value |-> secrets[spc.i].value,
                                     environment |-> environment, ok |-> ok])
          /\ IF Rejects(ok) THEN SetupFails
             ELSE spc' = At("setSecret", spc.i + 1) /\ UNCHANGED setupExit
    /\ UNCHANGED <<secrets, environment, entered, backupFile>>

\* saveSecretsBackup, then the end of run()
saveSecretsBackup ==
    /\ spc.at = "setSecret"
    /\ spc.i > Len(secrets)
    /\ backupFile' =
          FileOf([environment |-> environment,
                  secrets |-> [k \in 1..Len(secrets) |->
                                  [name |-> secrets[k].name,
                                   value |-> maskSecret(secrets[k].value)]]])
    /\ spc' = At("exited", 0)
    /\ setupExit' = 0
    /\ UNCHANGED <<secrets, environment, entered, wranglerPuts>>

scriptVars == <<deployVars, secretVars>>

ScriptsIdle == DeployIdle /\ SecretsIdle

laterVars == <<preVars, scriptVars>>

LaterIdle == PreIdle /\ ScriptsIdle

vars == <<consVars, hookVars, laterVars>>

(***************************************************************************)
(* Spec: runs of the session scripts.                                      *)
(***************************************************************************)
Init == ConsInit /\ HookIdle /\ LaterIdle

Next ==
    \/ Generate /\ UNCHANGED <<hookVars, laterVars>>
    \/ Start /\ UNCHANGED <<hookVars, laterVars>>
    \/ MakeDir /\ UNCHANGED <<hookVars, laterVars>>
    \/ AddSession /\ UNCHANGED <<hookVars, laterVars>>
    \/ RemoveSession /\ UNCHANGED <<hookVars, laterVars>>
    \/ AddOther /\ UNCHANGED <<hookVars, laterVars>>

Spec == Init /\ [][Next]_vars

(***************************************************************************)
(* SpecHook: sequences of post-tool hook invocations, one after the other. *)
(* SpecScore: one invocation, on every result of ScoreResults.             *)
(***************************************************************************)
InitHook == ConsInit /\ HookInit /\ LaterIdle

NextHook == PostTool /\ UNCHANGED laterVars

SpecHook == InitHook /\ [][NextHook]_vars

NextScore == PostToolOnce /\ UNCHANGED laterVars

SpecScore == InitHook /\ [][NextScore]_vars

(***************************************************************************)
(* SpecRace: post-tool hook invocations that overlap.                      *)
(***************************************************************************)
InitRace == ConsInit /\ RaceInit /\ LaterIdle

NextRace ==
    \/ Begin /\ UNCHANGED <<consFiles, laterVars>>
    \/ Analyze /\ UNCHANGED <<consFiles, laterVars>>
    \/ ReadStatsStep /\ UNCHANGED <<consFiles, laterVars>>
    \/ Truncate /\ UNCHANGED <<consFiles, laterVars>>
    \/ WriteData /\ UNCHANGED <<consFiles, laterVars>>
    \/ ShellEnd /\ UNCHANGED <<consFiles, laterVars>>

SpecRace == InitRace /\ [][NextRace]_vars

(***************************************************************************)
(* SpecSwitch: pre-tool and post-tool hook invocations, one after the      *)
(* other, in any order.                                                    *)
(***************************************************************************)
\* hook invocations of one behaviour of SpecSwitch
MaxHookRuns == 3

HookRuns == preInvocations + invocations

\* tool, tool input and what the analyzer detects for it
PreCase(tool, input, file, path) ==
    [tool |-> tool, input |-> input, file |-> file, path |-> path]

PreCases ==
    { PreCase("Read", ToolInput(TRUE, TRUE, FALSE, FALSE),
              Detection(<<"ChittyFinance">>, 9), NoDetection),
      PreCase("Read", ToolInput(TRUE, TRUE, FALSE, FALSE),
              Detection(<<"ChittyFinance">>, 6), NoDetection),
      PreCase("Read", ToolInput(TRUE, TRUE, TRUE, FALSE),
              Detection(<<"ChittyFinance">>, 9), Detection(<<"ChittyOS-Core">>, 8)),
      PreCase("Read", ToolInput(FALSE, TRUE, TRUE, FALSE),
              Detection(<<"ChittyFinance">>, 9), Detection(<<"ChittyOS-Core">>, 8)),
      PreCase("Read", ToolInput(TRUE, TRUE, FALSE, FALSE), AnalyzerThrows, NoDetection),
      PreCase("Task", ToolInput(TRUE, TRUE, FALSE, FALSE),
              Detection(<<"ChittyFinance">>, 9), NoDetection),
      PreCase("Bash", ToolInput(FALSE, FALSE, FALSE, TRUE), NoDetection, NoDetection),
      PreCase("Bash", ToolInput(TRUE, FALSE, TRUE, FALSE),
              NoDetection, Detection(<<"Alpha">>, 7)) }

\* the project directories the hooks find: Alpha holds one session
SwitchSessions ==
    /\ dirExists = [p \in Projects |-> p = <<"Alpha">>]
    /\ entries = [p \in Projects |-> IF p = <<"Alpha">> THEN {SessionFile(1)} ELSE {}]
    /\ smartFile = [p \in Projects |-> NoFile]
    /\ integrationStatus = NoFile
    /\ restoreScripts = {}
    /\ clock = 2
    /\ runs = 0
    /\ last = NoLast

\* the pointer and the statistics the hooks start from: no pointer, a pointer
\* to a project with a statistics entry, a pointer to a project with a session
SwitchStarts ==
    { <<NoFile, NoStatsFile>>,
      <<FileOf(<<"ChittyOS-Core">>),
        StatsDocument(StatsAfter(<<>>, <<"ChittyOS-Core">>, "/work/a", "code-reviewer", 1))>>,
      <<FileOf(<<"Alpha", NL>>), NoStatsFile>> }

SwitchInit ==
    /\ \E start \in SwitchStarts : pointerFile = start[1] /\ statsFile = start[2]
    /\ skipFile = FALSE
    /\ logsDir \in BOOLEAN
    /\ activityLog = <<>>
    /\ suggestionsLog = <<>>
    /\ awarenessLog = <<>>
    /\ simpleLog = <<>>
    /\ invocations = 0
    /\ lastHook = NoHook
    /\ hookProc = [h \in Hooks |-> ProcIdle]

\* the answer is read only when the question is asked
PreTool ==
    /\ HookRuns < MaxHookRuns
    /\ \E c \in PreCases :
          \E answer \in IF PreReached(c.tool, c.input, c.file, c.path) = "prompt"
                        THEN Answers ELSE {NoAnswer} :
              PreToolHook(c.tool, c.input, c.file, c.path, answer)
    /\ UNCHANGED <<consFiles, scriptVars>>

LastTwo(history) ==
    IF Len(history) > 2 THEN SubSeq(history, Len(history) - 1, Len(history)) ELSE history

PostToolAfterPre ==
    /\ HookRuns < MaxHookRuns
    /\ \E tool \in RaceTools, result \in HookResults :
          PostToolHook(tool, "code-reviewer", "/work/a", result)
    /\ postHistory' =
          LastTwo(Append(postHistory,
                         [hook |-> lastHook', pointer |-> pointerFile,
                          after |-> pointerFile', skip |-> skipFile, logs |-> logsDir]))
    /\ UNCHANGED <<consFiles, switchesLog, preInvocations, lastPre, prevPre,
                   projectsRoot, entryLast, scriptVars>>

InitSwitch == SwitchSessions /\ SwitchInit /\ PreIdle /\ ScriptsIdle

NextSwitch ==
    \/ PreTool
    \/ PostToolAfterPre

SpecSwitch == InitSwitch /\ [][NextSwitch]_vars

(***************************************************************************)
(* SpecEntry: the entry points of the scripts, run one after the other on  *)
(* a home directory where ~/.claude/projects and ~/.claude/logs may be     *)
(* missing.                                                                *)
(***************************************************************************)
\* runs of the session scripts and of the hooks in one behaviour of SpecEntry
MaxEntries == 2

EntryRuns == runs + HookRuns

Ended(entry, outcome) == [entry |-> entry, outcome |-> outcome]

\* node quick-smart-sessions.js <project-name>
QuickOutcome(generated) == IF generated.outcome = "written" THEN "done" ELSE "nothing"

\* node quick-smart-sessions.js: the usage text, then readdirSync of
\* ~/.claude/projects with nothing around it
UsageOutcome == IF projectsRoot THEN "done" ELSE "uncaught"

\* node chittychat-smart-start.js start <project-name>
StartOutcome(started) ==
    IF started.result = "true" THEN "done"
    ELSE IF started.hadRecord /\ started.outcome = "throws" THEN "caught"
    ELSE "nothing"

\* listAvailableSessions: existsSync(projectsPath) comes first
ListOutcome == IF projectsRoot THEN "done" ELSE "nothing"

\* the post-tool analysis: only a missing logs directory makes it throw, and
\* the catch of postToolAnalysis prints it
PostOutcome(hook) ==
    CASE hook.reached = "nologs" -> "caught"
      [] hook.reached = "syntax" -> "syntaxerror"
      [] hook.reached \in {"skipfile", "skiptool"} -> "nothing"
      [] OTHER -> "done"

\* the pre-tool analysis
PreOutcome(pre) ==
    IF pre.uncaught THEN "uncaught"
    ELSE IF pre.reached = "caught" THEN "caught"
    ELSE IF pre.reached = "prompt" THEN "done"
    ELSE "nothing"

EntryFrame ==
    <<switchesLog, preInvocations, lastPre, prevPre, postHistory, projectsRoot, scriptVars>>

EntryQuick ==
    /\ EntryRuns < MaxEntries
    /\ Generate
    /\ entryLast' = Ended("quick", QuickOutcome(last'))
    /\ UNCHANGED <<hookVars, EntryFrame>>

EntryQuickUsage ==
    /\ entryLast' = Ended("quick-usage", UsageOutcome)
    /\ UNCHANGED <<consVars, hookVars, EntryFrame>>

EntryStart ==
    /\ EntryRuns < MaxEntries
    /\ Start
    /\ entryLast' = Ended("start", StartOutcome(last'))
    /\ UNCHANGED <<hookVars, EntryFrame>>

EntryList ==
    /\ entryLast' = Ended("list", ListOutcome)
    /\ UNCHANGED <<consVars, hookVars, EntryFrame>>

EntryPreTool ==
    /\ EntryRuns < MaxEntries
    /\ PreTool

EntryPostTool ==
    /\ EntryRuns < MaxEntries
    /\ PostToolAfterPre

\* with ~/.claude/projects the directory of project Alpha and one session
EntrySessions ==
    /\ projectsRoot \in BOOLEAN
    /\ dirExists = [p \in Projects |-> projectsRoot /\ p = <<"Alpha">>]
    /\ entries = [p \in Projects |->
                    IF projectsRoot /\ p = <<"Alpha">> THEN {SessionFile(1)} ELSE {}]
    /\ smartFile = [p \in Projects |-> NoFile]
    /\ integrationStatus = NoFile
    /\ restoreScripts = {}
    /\ clock = 2
    /\ runs = 0
    /\ last = NoLast

InitEntry ==
    /\ EntrySessions
    /\ SwitchInit
    /\ switchesLog = <<>>
    /\ preInvocations = 0
    /\ lastPre = NoPre
    /\ prevPre = NoPre
    /\ postHistory = <<>>
    /\ entryLast = NoEntry
    /\ ScriptsIdle

NextEntry ==
    \/ EntryQuick
    \/ EntryQuickUsage
    \/ EntryStart
    \/ EntryList
    \/ EntryPreTool
    \/ EntryPostTool

SpecEntry == InitEntry /\ [][NextEntry]_vars

(***************************************************************************)
(* SpecDeploy: one run of execute-strategic-deployment.sh (deploy, or      *)
(* rollback of a saved file), of deploy-phase1.sh, or of one call of       *)
(* check_service_health, on an account where some resources may exist.     *)
(***************************************************************************)
\* the largest max_attempts given to check_service_health
MaxAttempts == 3

AllNamespaces == {Kv(KvNamespaces[k]) : k \in 1..Len(KvNamespaces)}
AllPreviews == {KvPreview(KvNamespaces[k]) : k \in 1..Len(KvNamespaces)}
AllBuckets == {R2(R2Buckets[k]) : k \in 1..Len(R2Buckets)}

\* what the account holds before the run
Accounts ==
    {{},
     AllPreviews,
     {Kv("SESSION_STORE"), KvPreview("SESSION_STORE"), KvPreview("PROJECT_STORE"),
      R2("chittyops-analytics")},
     AllNamespaces \cup AllPreviews \cup AllBuckets}

Clouds ==
    {[existing |-> account, dirs |-> dirs] :
        account \in Accounts, dirs \in {WorkerDirs, {"mcp-server-worker"}, {}}}

\* the arrays at the call of check_service_health in deploy_core_workers
\* and in deploy_mcp_server
HealthCalls ==
    {[service |-> "Project Awareness Staging",
      services |-> <<"project-awareness-staging">>,
      resources |-> <<>>,
      commands |-> <<DeleteWorker("chittyops-project-awareness-staging")>>],
     [service |-> "Project Awareness Production",
      services |-> <<"project-awareness-staging", "project-awareness-production">>,
      resources |-> << <<"r2:", "chittyops-analytics">> >>,
      commands |-> <<DeleteBucket("chittyops-analytics"),
                     DeleteWorker("chittyops-project-awareness-staging"),
                     DeleteWorker("chittyops-project-awareness")>>],
     [service |-> "MCP Server",
      services |-> <<"mcp-server">>,
      resources |-> <<>>,
      commands |-> <<DeleteWorker("chittyos-mcp-server")>>]}

\* rollback files as save_rollback_state writes them, and none
RollbackFiles ==
    {NoRollbackFile}
        \cup {[exists |-> TRUE, commands |-> SavedCommands(commands)] :
                commands \in {<<>>,
                              <<DeleteBucket("chittyops-analytics")>>,
                              <<DeleteNamespace("SESSION_STORE"),
                                DeleteWorker("chittyops-project-awareness-staging")>>,
                              <<DeleteNamespace("SESSION_STORE"),
                                DeleteBucket("chittyops-analytics"),
                                DeleteWorker("chittyops-project-awareness-staging")>>}}

DeployStart ==
    /\ mode \in {"deploy", "phase1"}
    /\ dpc = At("main", 0)
    /\ DEPLOYED_SERVICES = <<>>
    /\ CREATED_RESOURCES = <<>>
    /\ ROLLBACK_COMMANDS = <<>>
    /\ cloud \in Clouds
    /\ rollbackFile = NoRollbackFile
    /\ health = NoHealth

RollbackStart ==
    /\ mode = "rollback"
    /\ dpc = At("main", 0)
    /\ DEPLOYED_SERVICES = <<>>
    /\ CREATED_RESOURCES = <<>>
    /\ ROLLBACK_COMMANDS = <<>>
    /\ cloud = [existing |-> {}, dirs |-> WorkerDirs]
    /\ rollbackFile \in RollbackFiles
    /\ health = NoHealth

HealthStart ==
    /\ mode = "health"
    /\ dpc = At("health", 0)
    /\ \E call \in HealthCalls :
          /\ DEPLOYED_SERVICES = call.services
          /\ CREATED_RESOURCES = call.resources
          /\ ROLLBACK_COMMANDS = call.commands
          /\ \E max_attempts \in 0..MaxAttempts, wait_seconds \in {5, 10} :
                health = [service |-> call.service, max |-> max_attempts,
                          wait |-> wait_seconds, i |-> 1, probes |-> <<>>,
                          sleeps |-> 0, waited |-> 0]
    /\ cloud = [existing |-> {}, dirs |-> WorkerDirs]
    /\ rollbackFile = NoRollbackFile

InitDeploy ==
    /\ SwitchSessions
    /\ HookIdle
    /\ PreIdle
    /\ DeployStart \/ RollbackStart \/ HealthStart
    /\ created = {}
    /\ events = <<>>
    /\ executed = <<>>
    /\ exitStatus = Running
    /\ errorExit = FALSE
    /\ pending = <<>>
    /\ SecretsIdle

otherVars == <<consVars, hookVars, preVars, secretVars>>

NextDeploy ==
    \/ MainStart /\ UNCHANGED otherVars
    \/ SetupKvNamespace /\ UNCHANGED otherVars
    \/ SetupR2Bucket /\ UNCHANGED otherVars
    \/ deploy_core_workers /\ UNCHANGED otherVars
    \/ CreateWorkers /\ UNCHANGED otherVars
    \/ deploy_mcp_server /\ UNCHANGED otherVars
    \/ deploy_auth_provider /\ UNCHANGED otherVars
    \/ setup_monitoring /\ UNCHANGED otherVars
    \/ MainFinish /\ UNCHANGED otherVars
    \/ Phase1Main /\ UNCHANGED otherVars
    \/ EmergencyRollbackStep /\ UNCHANGED otherVars
    \/ HealthProbe /\ UNCHANGED otherVars
    \/ HealthSleep /\ UNCHANGED otherVars
    \/ HealthGiveUp /\ UNCHANGED otherVars
    \/ ManualStart /\ UNCHANGED otherVars
    \/ ManualRead /\ UNCHANGED otherVars
    \/ ManualDone /\ UNCHANGED otherVars

SpecDeploy == InitDeploy /\ [][NextDeploy]_vars

(***************************************************************************)
(* SpecPointer: the hooks of SpecSwitch, started with the pointer file     *)
(* absent or empty.                                                        *)
(***************************************************************************)
InitPointer ==
    /\ SwitchSessions
    /\ pointerFile \in {NoFile, FileOf(<<>>)}
    /\ statsFile = NoStatsFile
    /\ skipFile = FALSE
    /\ logsDir \in BOOLEAN
    /\ activityLog = <<>>
    /\ suggestionsLog = <<>>
    /\ awarenessLog = <<>>
    /\ simpleLog = <<>>
    /\ invocations = 0
    /\ lastHook = NoHook
    /\ hookProc = [h \in Hooks |-> ProcIdle]
    /\ PreIdle
    /\ ScriptsIdle

SpecPointer == InitPointer /\ [][NextSwitch]_vars

(***************************************************************************)
(* SpecSecrets: one run of setup-secrets.js.                               *)
(***************************************************************************)
InitSecrets ==
    /\ SwitchSessions
    /\ HookIdle
    /\ PreIdle
    /\ DeployIdle
    /\ secrets = <<>>
    /\ environment = "production"
    /\ spc = At("run", 0)
    /\ entered = <<>>
    /\ wranglerPuts = <<>>
    /\ backupFile = NoFile
    /\ setupExit = Running

restVars == <<consVars, hookVars, preVars, deployVars>>

NextSecrets ==
    \/ checkWrangler /\ UNCHANGED restVars
    \/ selectEnvironment /\ UNCHANGED restVars
    \/ collectSecret /\ UNCHANGED restVars
    \/ confirmAndDeploy /\ UNCHANGED restVars
    \/ setSecret /\ UNCHANGED restVars
    \/ saveSecretsBackup /\ UNCHANGED restVars

SpecSecrets == InitSecrets /\ [][NextSecrets]_vars

(***************************************************************************)
(* Properties of the session consolidation and restoration.                *)
(***************************************************************************)
\* the session files of a project directory, as the specification defines
\* them: entries ending in .jsonl whose name does not contain SMART-START
DeclaredSessionFiles(p) ==
    {f \in ReadDir(p) : f[Len(f)] = ".jsonl" /\ \A i \in 1..Len(f) : f[i] # "SMART-START"}

HeaderOf(content) == JSONParse(Split(content, NL)[1])

\* C1: after generateQuickSmartSession ran on a project directory holding
\* N >= 1 session files, the record file exists and the header's
\* consolidated_sessions field is the number N.
C1_HeaderCountIsN ==
    (last.op = "generate" /\ dirExists[last.project]
        /\ Cardinality(DeclaredSessionFiles(last.project)) >= 1)
    => /\ smartFile[last.project].exists
       /\ LET header == HeaderOf(smartFile[last.project].content)
          IN  /\ header.ok
              /\ HasKey(header.obj, <<"consolidated_sessions">>)
              /\ GetField(header.obj, <<"consolidated_sessions">>).t = "num"
              /\ GetField(header.obj, <<"consolidated_sessions">>).n
                    = Cardinality(DeclaredSessionFiles(last.project))

C1_Witness ==
    /\ last.op = "generate"
    /\ last.outcome = "written"
    /\ last.hadRecord
    /\ Cardinality(DeclaredSessionFiles(last.project)) = 2
    /\ OtherFiles \subseteq entries[last.project]

\* C2: after a run that wrote, the record file holds exactly what that run
\* produced (three lines, stamped with the time of that run), whatever an
\* earlier run left there, and the earlier record was not counted.
C2_OverwrittenNotAppended ==
    (last.op = "generate" /\ last.outcome = "written")
    => LET content == smartFile[last.project].content
           header == HeaderOf(content)
       IN  /\ smartFile[last.project].exists
           /\ content = last.record
           /\ Len(Split(content, NL)) = 3
           /\ header.ok
           /\ GetField(header.obj, <<"generated_at">>).v = ISOString(clock - 1)
           /\ last.n = Cardinality(DeclaredSessionFiles(last.project))

C2_Witness ==
    /\ last.op = "generate"
    /\ last.outcome = "written"
    /\ last.hadRecord
    /\ runs >= 2
    /\ clock > 2

\* C3: startSmartSession on a project without a record file returns false.
C3_StartWithoutRecordFails ==
    (last.op = "start" /\ ~last.hadRecord) => last.result = "false"

C3_Witness ==
    /\ last.op = "start"
    /\ ~last.hadRecord
    /\ dirExists[last.project]
    /\ last.outcome = "success"
    /\ last.result = "false"

\* C7: the record generateSmartContent returns is three lines separated by
\* line feeds: the header, the context message, the suggestions message,
\* each of them a JSON object.
C7_ThreeJSONLines ==
    (last.op = "generate" /\ last.outcome = "written")
    => LET lines == Split(last.record, NL)
       IN  /\ Len(lines) = 3
           /\ \A i \in 1..3 : JSONParse(lines[i]).ok
           /\ GetField(JSONParse(lines[1]).obj, <<"type">>).v = <<"smart_start_session">>
           /\ GetField(JSONParse(lines[1]).obj, <<"project">>).v = last.project
           /\ GetField(JSONParse(lines[2]).obj, <<"role">>).v = <<"assistant">>
           /\ HasKey(JSONParse(lines[2]).obj, <<"content">>)
           /\ GetField(JSONParse(lines[3]).obj, <<"role">>).v = <<"system">>
           /\ HasKey(JSONParse(lines[3]).obj, <<"content">>)

C7_Witness ==
    /\ last.op = "generate"
    /\ last.outcome = "written"
    /\ last.project = <<"my", QUOTE, "proj">>
    /\ last.n = 2
    /\ Len(last.record) > 0

\* C8: a run on a missing directory or on a directory without session
\* files writes nothing: the record file, the directory and its entries are
\* what they were.
C8_NoSessionsNoWrite ==
    [][(/\ last'.op = "generate"
        /\ runs' = runs + 1
        /\ \/ ~dirExists[last'.project]
           \/ DeclaredSessionFiles(last'.project) = {})
       => (smartFile' = smartFile /\ entries' = entries /\ dirExists' = dirExists)]_vars

C8_Witness ==
    /\ last.op = "generate"
    /\ last.outcome = "nosessions"
    /\ smartFile[last.project].exists
    /\ smartFile[last.project].content # <<>>

\* C14: round trip of the session record: right after
\* generateQuickSmartSession wrote the record of a project with N >= 1
\* session files, loadSmartSession of that project returns an object whose
\* project is the project name, whose consolidated_sessions is N, and whose
\* context and suggestions are non-empty texts.
C14_RecordRoundTrip ==
    (last.op = "generate" /\ last.outcome = "written")
    => LET loaded == loadSmartSession(last.project)
       IN  /\ Cardinality(DeclaredSessionFiles(last.project)) >= 1
           /\ loaded.found
           /\ HasKey(loaded.data, <<"project">>)
           /\ GetField(loaded.data, <<"project">>).t = "str"
           /\ GetField(loaded.data, <<"project">>).v = last.project
           /\ HasKey(loaded.data, <<"consolidated_sessions">>)
           /\ GetField(loaded.data, <<"consolidated_sessions">>).t = "num"
           /\ GetField(loaded.data, <<"consolidated_sessions">>).n
                 = Cardinality(DeclaredSessionFiles(last.project))
           /\ loaded.context.defined
           /\ Len(loaded.context.v) > 0
           /\ loaded.suggestions.defined
           /\ Len(loaded.suggestions.v) > 0

\* a record of two sessions, written over an older one, for the project
\* whose name holds a double quote
C14_Witness ==
    /\ last.op = "generate"
    /\ last.outcome = "written"
    /\ last.project = <<"my", QUOTE, "proj">>
    /\ Cardinality(DeclaredSessionFiles(last.project)) = 2
    /\ loadSmartSession(last.project).found
    /\ loadSmartSession(last.project).context.defined

(***************************************************************************)
(* Properties of the post-tool hook.                                       *)
(***************************************************************************)
\* a text holds a keyword when one of its words does
TextHolds(text, keyword) == \E j \in 1..Len(text) : keyword \in KeywordsIn(text[j])

HoldsAllOf(text, i) ==
    \A k \in 1..Len(KeywordsOf(i)) : TextHolds(text, KeywordsOf(i)[k])

HoldsNoneOf(text, i) ==
    \A k \in 1..Len(KeywordsOf(i)) : ~TextHolds(text, KeywordsOf(i)[k])

\* every keyword of project i and no keyword of another project
OnlyProject(text, i) ==
    HoldsAllOf(text, i) /\ \A j \in 1..NumProjects : j # i => HoldsNoneOf(text, j)

\* confidence 1.0 for project i, 0 for the others
ScoresOnly(matches, i) ==
    /\ \E k \in 1..Len(matches) :
          matches[k].project = projectKeywords[i].project /\ matches[k].num = matches[k].den
    /\ \A k \in 1..Len(matches) :
          matches[k].project # projectKeywords[i].project => matches[k].num = 0

AtLeast(m, n) == m.num * n.den >= n.num * m.den

\* the matches with the highest confidence, by position
TopMatches(matches) ==
    {k \in 1..Len(matches) : \A j \in 1..Len(matches) : AtLeast(matches[k], matches[j])}

AboveThreshold(m) == m.num * 10 > 3 * m.den

\* C5: when the analysis has scored a result, and the one project with the
\* top confidence has confidence above 0.3 and is not the current project,
\* a suggestion naming that project has been appended to
\* project-suggestions.jsonl.
C5_TopScoringSuggested ==
    (lastHook.op = "posttool" /\ lastHook.scored)
    => \A k \in 1..Len(lastHook.matches) :
          (/\ TopMatches(lastHook.matches) = {k}
           /\ AboveThreshold(lastHook.matches[k])
           /\ lastHook.matches[k].project # lastHook.project)
          => /\ lastHook.suggested
             /\ Len(suggestionsLog) > 0
             /\ suggestionsLog[Len(suggestionsLog)].suggested_project
                    = lastHook.matches[k].project

\* C6: when several projects tie for the highest confidence and a
\* suggestion is made, it names the first declared of them.
C6_FirstDeclaredWinsTie ==
    (lastHook.op = "posttool" /\ lastHook.scored /\ lastHook.suggested)
    => LET tops == TopMatches(lastHook.matches)
           first == CHOOSE k \in tops : \A j \in tops : k <= j
       IN  (Cardinality(tops) >= 2 /\ AboveThreshold(lastHook.matches[first]))
           => lastHook.suggestion[1].project = lastHook.matches[first].project

CompletedUpdates(p) ==
    Cardinality({k \in 1..Len(activityLog) : activityLog[k].project = p})
    - Cardinality({h \in Hooks :
            hookProc[h].pc \in {"readstats", "truncate", "writedata"}
            /\ hookProc[h].project = p})

Updated(h) == hookProc[h].pc \in {"shellend", "done"} /\ hookProc[h].reached = "stats"

\* C10: when two invocations for the same project have both read the same
\* tool_uses from project-stats.json and both have written, the stored
\* tool_uses is one more than what they read: it is smaller than the number
\* of updates made, and the stored count never exceeds that number.
C10_BothReadThenOneLost ==
    /\ \A p \in {NONE, <<"ChittyOS-Core">>} : ToolUses(statsFile, p) <= CompletedUpdates(p)
    /\ \A h1, h2 \in Hooks :
          (/\ h1 # h2
           /\ Updated(h1)
           /\ Updated(h2)
           /\ hookProc[h1].project = hookProc[h2].project
           /\ hookProc[h1].readUses = hookProc[h2].readUses)
          => /\ ToolUses(statsFile, hookProc[h1].project) = hookProc[h1].readUses + 1
             /\ ToolUses(statsFile, hookProc[h1].project)
                    < CompletedUpdates(hookProc[h1].project)

\* the lost update: two invocations have ended, one is counted
C10_Witness ==
    /\ \A h \in Hooks : hookProc[h].pc = "done" /\ hookProc[h].reached = "stats"
    /\ invocations = 2
    /\ CompletedUpdates(lastHook.project) = 2
    /\ ToolUses(statsFile, lastHook.project) = 1

(***************************************************************************)
(* Properties of the pre-tool hook and of the two hooks together.          *)
(***************************************************************************)
\* the project the pointer file names
PointerProject == Trim(pointerFile.content)

HasStatisticsEntry(p) == p \in DOMAIN ReadStats(statsFile)

HasKnownSession(p) == p \in Projects /\ dirExists[p] /\ SessionFilesOf(p) # {}

\* C11: after any sequence of pre-tool and post-tool hook invocations, the
\* current-project pointer, if present, names a project that has a session
\* or a statistics entry.
C11_PointerNamesKnownProject ==
    pointerFile.exists
    => HasStatisticsEntry(PointerProject) \/ HasKnownSession(PointerProject)

SamePostInputs(a, b) ==
    /\ a.hook.tool = b.hook.tool
    /\ a.hook.result = b.hook.result
    /\ a.pointer = b.pointer

SamePostOutcome(a, b) ==
    /\ a.hook.suggestion = b.hook.suggestion
    /\ a.after = b.after

\* the analyzer's detections count as input
SamePreInputs(a, b) ==
    /\ a.op = "pretool"
    /\ b.op = "pretool"
    /\ a.tool = b.tool
    /\ a.input = b.input
    /\ a.file = b.file
    /\ a.path = b.path
    /\ a.before = b.before

\* the same question or none, and on the same answer the same pointer
SamePreOutcome(a, b) ==
    /\ a.prompted = b.prompted
    /\ a.answer = b.answer => a.after = b.after

\* C12 as stated: two invocations of the same hook with the same tool name,
\* the same input or result and the same pointer file produce the same
\* suggestion and the same pointer outcome, whatever the other files hold.
C12_StatelessApartFromPointer ==
    /\ (Len(postHistory) = 2 /\ SamePostInputs(postHistory[1], postHistory[2]))
       => SamePostOutcome(postHistory[1], postHistory[2])
    /\ SamePreInputs(prevPre, lastPre) => SamePreOutcome(prevPre, lastPre)

\* C12 amended: the post-tool hook also depends on whether the
\* skip-project-prompts file and the logs directory exist; with these the
\* same as well, its suggestion and the pointer are the same whatever the
\* statistics and the logs hold.  The pre-tool hook asks and switches the
\* same way whatever the other files hold, the skip file included.
C12_StatelessApartFromPointerAndSkip ==
    /\ (/\ Len(postHistory) = 2
        /\ SamePostInputs(postHistory[1], postHistory[2])
        /\ postHistory[1].skip = postHistory[2].skip
        /\ postHistory[1].logs = postHistory[2].logs)
       => SamePostOutcome(postHistory[1], postHistory[2])
    /\ SamePreInputs(prevPre, lastPre) => SamePreOutcome(prevPre, lastPre)

\* the same post-tool invocation twice, suggesting both times although the
\* statistics changed in between, and the same question asked twice with a
\* skip answer in between
C12_Witness ==
    /\ Len(postHistory) = 2
    /\ SamePostInputs(postHistory[1], postHistory[2])
    /\ postHistory[1].skip = postHistory[2].skip
    /\ postHistory[1].logs = postHistory[2].logs
    /\ postHistory[2].hook.suggested
    /\ postHistory[1].hook.suggested
    /\ ToolUses(statsFile, postHistory[2].hook.project) >= 2

\* C20: once the user has answered s to the question of the pre-tool hook
\* (the skip-project-prompts file exists from then on), no later pre-tool
\* invocation asks the question again.
C20_NoPromptAfterSkip ==
    [][(skipFile /\ preInvocations' = preInvocations + 1) => ~lastPre'.prompted]_vars

\* C13: no entry point (the quick smart-session command with or without a
\* project argument, startSmartSession, listAvailableSessions, the pre-tool
\* and the post-tool analysis) ends with an unhandled exception when a file
\* or a directory is missing: the error is caught and printed, or there is
\* nothing to do.
C13_MissingFilesAreHandled ==
    /\ entryLast.outcome # "uncaught"
    /\ lastPre.op = "pretool" => PreOutcome(lastPre) # "uncaught"
    /\ lastHook.op = "posttool" => PostOutcome(lastHook) # "uncaught"

(***************************************************************************)
(* Properties of the deployment scripts.                                   *)
(***************************************************************************)
Reverse(seq) == [k \in 1..Len(seq) |-> seq[Len(seq) + 1 - k]]

\* the rollback commands that were run, in the order in which they ran
CommandsRun == [k \in 1..Len(executed) |-> executed[k].cmd]

\* C15: when the script has ended after error_exit, every registered
\* rollback command has been run exactly once, last registered first, and
\* the exit status is 1, also when a rollback command failed
C15_ErrorExitRunsEveryRollbackCommand ==
    (errorExit /\ dpc.at = "exited")
        => (CommandsRun = Reverse(ROLLBACK_COMMANDS) /\ exitStatus = 1)

ProductionStarts(run) ==
    {k \in 1..Len(events) : events[k].run = run /\ events[k].what = "production-deploy"}

PassedBefore(run, what, k) ==
    \E i \in 1..(k - 1) : events[i] = [run |-> run, what |-> what, ok |-> TRUE]

StagingFailed(run) ==
    \E i \in 1..Len(events) :
        /\ events[i].run = run
        /\ events[i].what \in {"staging-deploy", "staging-health"}
        /\ ~events[i].ok

\* C16: in a run of either script the production deployment of the Project
\* Awareness worker starts only after the staging deployment succeeded and
\* the staging health check passed after it; when either failed, the run
\* has no production deployment
C16_ProductionOnlyAfterHealthyStaging ==
    \A run \in {"strategic", "phase1"} :
        /\ \A k \in ProductionStarts(run) :
              \E j \in 1..(k - 1) :
                  /\ events[j] = [run |-> run, what |-> "staging-health", ok |-> TRUE]
                  /\ PassedBefore(run, "staging-deploy", j)
        /\ StagingFailed(run) => ProductionStarts(run) = {}

\* C16 witness: the strategic script has deployed production and so has
\* deploy-phase1.sh, which it ran for the missing worker directories
C16_Witness ==
    /\ mode = "deploy"
    /\ ProductionStarts("strategic") # {}
    /\ ProductionStarts("phase1") # {}

FailedProbes == {k \in 1..Len(health.probes) : ~health.probes[k]}

AllProbesFailed == Len(health.probes) = health.max /\ Cardinality(FailedProbes) = health.max

\* C17: check_service_health probes at most max_attempts times; only the
\* last probe can have succeeded, and then the function has returned; it has
\* slept wait seconds after each failed probe except probe max_attempts;
\* error_exit is called after max_attempts failed probes and only then
C17_HealthCheckProbesAndWaits ==
    mode = "health" =>
        /\ Len(health.probes) <= health.max
        /\ \A k \in 1..(Len(health.probes) - 1) : ~health.probes[k]
        /\ dpc.at = "returned" <=> (health.probes # <<>> /\ health.probes[Len(health.probes)])
        /\ health.sleeps + (IF dpc.at = "sleep" THEN 1 ELSE 0)
              = Cardinality({k \in FailedProbes : k < health.max})
        /\ health.waited = health.sleeps * health.wait
        /\ errorExit => AllProbesFailed
        /\ AllProbesFailed =>
              \/ dpc.at = "health" /\ health.i > health.max
              \/ errorExit

\* C17 witness: MaxAttempts probes have failed with a wait between them and
\* none after the last, and error_exit has been called
C17_Witness ==
    /\ mode = "health"
    /\ errorExit
    /\ health.max = MaxAttempts
    /\ Len(health.probes) = MaxAttempts
    /\ health.sleeps = MaxAttempts - 1

CommandsFor(resource) ==
    {k \in 1..Len(ROLLBACK_COMMANDS) : ROLLBACK_COMMANDS[k] = RollbackCommandOf(resource)}

\* C18: in the strategic deployment there are as many rollback commands as
\* entries of DEPLOYED_SERVICES and CREATED_RESOURCES together, each
\* namespace, bucket and worker that the run created has exactly one
\* rollback command, and what existed before has none
C18_OneRollbackCommandPerCreatedResource ==
    mode = "deploy" =>
        /\ Len(ROLLBACK_COMMANDS) = Len(DEPLOYED_SERVICES) + Len(CREATED_RESOURCES)
        /\ \A resource \in created : Cardinality(CommandsFor(resource)) = 1
        /\ \A resource \in cloud.existing \ created : CommandsFor(resource) = {}

IsCommand(line) == line # <<>>

\* C19: when manual_rollback has ended, every non-empty command of the
\* rollback file has been run exactly once, in the order of the file, also
\* after a command that failed, and the completion has been reported
C19_ManualRollbackRunsEveryCommand ==
    (mode = "rollback" /\ rollbackFile.exists /\ dpc.at = "exited")
        => /\ CommandsRun = SelectSeq(rollbackFile.commands, IsCommand)
           /\ \E k \in 1..Len(events) : events[k].what = "completed"

(***************************************************************************)
(* Properties of the current-project pointer and of the statistics.        *)
(***************************************************************************)
\* C21: the pointer file changes only in a pre-tool invocation, for a tool
\* other than Task and TodoWrite, in which the question was asked for a
\* suggestion that differs from the current project and the answer, in
\* lower case and without the spaces around it, was y or yes; every other
\* answer and every post-tool invocation leave the file as it was
C21_PointerOverwrittenOnlyOnYes ==
    [][pointerFile' # pointerFile =>
          /\ preInvocations' = preInvocations + 1
          /\ invocations' = invocations
          /\ lastPre'.tool \notin {"Task", "TodoWrite"}
          /\ lastPre'.prompted
          /\ pointerFile'.content # lastPre'.project
          /\ ResponseOf(lastPre'.answer) \in {<<"y">>, <<"yes">>}]_vars

\* C21 witness: the last pre-tool invocation asked, was answered yes and
\* wrote the suggested project into the pointer file
C21_Witness ==
    /\ lastPre.op = "pretool"
    /\ lastPre.prompted
    /\ lastPre.after # lastPre.before
    /\ lastPre.answer = <<" ", "Yes">>
    /\ pointerFile = lastPre.after

PointerHasNoName(file) == ~file.exists \/ file.content = <<>>

\* the pre-tool invocation came to the comparison with the current project
ComparesSuggestion(pre) ==
    /\ pre.op = "pretool"
    /\ pre.tool \notin SkippedTools
    /\ ~(pre.tool = "Bash" /\ pre.input.own)
    /\ ~AnalysisThrows(pre.input, pre.file, pre.path)
    /\ ProjectSuggestion(pre.input, pre.file, pre.path).kind # "none"

\* C22: with the pointer file absent or empty the post-tool hook records
\* the activity and the statistics under none, and the pre-tool hook
\* compares the suggestion with none
C22_AbsentAndEmptyPointerAreNone ==
    /\ \A k \in 1..Len(postHistory) :
          (postHistory[k].hook.reached = "stats" /\ PointerHasNoName(postHistory[k].pointer))
              => postHistory[k].hook.project = NONE
    /\ (ComparesSuggestion(lastPre) /\ PointerHasNoName(lastPre.before))
          => (lastPre.reached \in {"same", "prompt"} /\ lastPre.project = NONE)

NoDuplicates(seq) == \A i, j \in 1..Len(seq) : seq[i] = seq[j] => i = j

\* C23: after a post-tool invocation every entry of project-stats.json has
\* tool_uses >= 1 and lists of directories and of agents without
\* duplicates, and the entries of the projects other than the current one
\* are as they were before the invocation
C23_StatisticsEntriesWellFormed ==
    [][invocations' = invocations + 1 =>
          /\ \A p \in DOMAIN ReadStats(statsFile') :
                /\ ReadStats(statsFile')[p].tool_uses >= 1
                /\ NoDuplicates(ReadStats(statsFile')[p].directories)
                /\ NoDuplicates(ReadStats(statsFile')[p].agents_used)
          /\ \A p \in DOMAIN ReadStats(statsFile) :
                p # lastHook'.project =>
                    /\ p \in DOMAIN ReadStats(statsFile')
                    /\ ReadStats(statsFile')[p] = ReadStats(statsFile)[p]]_vars

(***************************************************************************)
(* Properties of setup-secrets.js.                                         *)
(***************************************************************************)
ConfigOf(name) ==
    SECRETS_CONFIG[CHOOSE i \in 1..Len(SECRETS_CONFIG) : SECRETS_CONFIG[i].name = name]

\* the value passes the test that SECRETS_CONFIG gives for the name
PassesRule(name, value) ==
    LET rule == ConfigOf(name).rule
    IN  /\ rule.kind = "min" => Len(value) >= rule.n
        /\ rule.kind = "exact" => Len(value) = rule.n
        /\ rule.kind = "prefix" =>
              (Len(value) >= Len(rule.prefix)
                  /\ \A i \in 1..Len(rule.prefix) : value[i] = rule.prefix[i])

SecretNames == {secrets[k].name : k \in 1..Len(secrets)}

\* C24: every entry of the secrets map is non-empty and passes the test of
\* its configuration; once a required secret was left empty or a value
\* failed its test, the run has ended with an error and wrangler was never
\* called; an optional secret left empty is not in the map
C24_OnlyValidSecretsCollected ==
    /\ \A k \in 1..Len(secrets) :
          secrets[k].value # <<>> /\ PassesRule(secrets[k].name, secrets[k].value)
    /\ \A k \in 1..Len(entered) :
          /\ (entered[k].value = <<>> /\ ConfigOf(entered[k].name).required)
                => (setupExit = 1 /\ wranglerPuts = <<>>)
          /\ (entered[k].value # <<>> /\ ~PassesRule(entered[k].name, entered[k].value))
                => (setupExit = 1 /\ wranglerPuts = <<>>)
          /\ (entered[k].value = <<>> /\ ~ConfigOf(entered[k].name).required)
                => entered[k].name \notin SecretNames

\* C24 witness: secrets were collected, then a value failed its test and
\* the run ended with an error before wrangler was called
C24_Witness ==
    /\ Len(secrets) >= 3
    /\ entered # <<>>
    /\ entered[Len(entered)].outcome = "validation"
    /\ setupExit = 1
    /\ wranglerPuts = <<>>

\* C25: wrangler is called for the entries of the map in their order, one
\* call each; after a call that failed there is no further call, no backup
\* file, and the run has ended with an error; the calls made before stay
\* made; a run that was not confirmed with y has no call and no backup file
C25_SecretsSetInOrderUntilFailure ==
    /\ Len(wranglerPuts) <= Len(secrets)
    /\ \A k \in 1..Len(wranglerPuts) :
          /\ wranglerPuts[k].name = secrets[k].name
          /\ wranglerPuts[k].value = secrets[k].value
          /\ k < Len(wranglerPuts) => wranglerPuts[k].ok
          /\ ~wranglerPuts[k].ok => (setupExit = 1 /\ ~backupFile.exists)
    /\ backupFile.exists => Len(wranglerPuts) = Len(secrets)
    /\ spc.at = "cancelled" => (wranglerPuts = <<>> /\ ~backupFile.exists)

\* C25 witness: the third call of wrangler failed after two that succeeded
C25_Witness ==
    /\ Len(wranglerPuts) = 3
    /\ ~wranglerPuts[3].ok
    /\ wranglerPuts[1].ok
    /\ setupExit = 1
    /\ ~backupFile.exists

\* the characters of a value that maskSecret replaces
Replaced(value) ==
    IF Len(value) <= 8 THEN 1..Len(value) ELSE 5..(Len(value) - 4)

IsMaskOf(masked, value) ==
    /\ Len(masked) = Len(value)
    /\ \A i \in 1..Len(value) :
          masked[i] = IF i \in Replaced(value) THEN "*" ELSE value[i]

BackupIsMasked ==
    /\ \A k \in 1..Len(secrets) : IsMaskOf(maskSecret(secrets[k].value), secrets[k].value)
    /\ backupFile.exists =>
          /\ Len(backupFile.content.secrets) = Len(secrets)
          /\ \A k \in 1..Len(secrets) :
                /\ backupFile.content.secrets[k].name = secrets[k].name
                /\ IsMaskOf(backupFile.content.secrets[k].value, secrets[k].value)

\* C26 as stated: maskSecret keeps the length, writes * for every character
\* of a value of at most 8 characters and for all but the first 4 and the
\* last 4 of a longer one, the backup holds these masked values, and no
\* value in the backup is the full secret
C26_BackupNeverHoldsFullSecret ==
    /\ BackupIsMasked
    /\ backupFile.exists =>
          \A k \in 1..Len(secrets) :
              backupFile.content.secrets[k].value # secrets[k].value

\* C26: maskSecret keeps the length, writes * for every character of a
\* value of at most 8 characters and for all but the first 4 and the last 4
\* of a longer one, and the backup holds these masked values; a value in
\* the backup is the full secret exactly when every character that
\* maskSecret replaces in it was * already
C26_BackupHoldsMaskedValues ==
    /\ BackupIsMasked
    /\ backupFile.exists =>
          \A k \in 1..Len(secrets) :
              backupFile.content.secrets[k].value = secrets[k].value
                  <=> \A i \in Replaced(secrets[k].value) : secrets[k].value[i] = "*"

\* C26 witness: a backup with a secret of at most 8 characters, all of it
\* masked, and with a secret longer than 8 characters that is written in full
C26_Witness ==
    /\ backupFile.exists
    /\ \E k \in 1..Len(secrets) :
          /\ Len(secrets[k].value) <= 8
          /\ backupFile.content.secrets[k].value = Repeat("*", Len(secrets[k].value))
    /\ \E k \in 1..Len(secrets) :
          /\ Len(secrets[k].value) > 8
          /\ backupFile.content.secrets[k].value = secrets[k].value

====
